---- MODULE Spec2Model ----
(***************************************************************************)
(* Model of the stress pipeline of AWE_Polar_Project:                      *)
(*   - game_bridge/stress_engine.py  : StressEngine (UATR smoother)        *)
(*   - nuanic_ring/monitor.py        : NuanicMonitor packet decoder and    *)
(*                                     notification callback               *)
(*   - nuanic_ring/eda_analyzer.py   : NuanicEDAAnalyzer (baseline, peaks, *)
(*                                     session statistics)                 *)
(*   - connector/schemas.py          : SignalPacket and its JSON line       *)
(*   - game_bridge/cognitive_agent.py: CognitiveAgent.decide_state         *)
(*   - connector/exporters/queue_sink.py, reader/realtime.py,              *)
(*     reader/predictor.py           : QueueSink.send and the reader loop  *)
(*   - nuanic_ring/logger.py         : NuanicDataLogger                    *)
(*   - nuanic_ring/connector.py      : NuanicConnector                     *)
(*   - bleakheart.py                 : HeartRate._notification_handler     *)
(*                                                                         *)
(* Python floats are modelled as exact rationals extended with the IEEE    *)
(* special values NaN, +Inf and -Inf.  A float is a record                 *)
(*   [k |-> "fin" | "nan" | "pinf" | "ninf" | "none", n |-> Int, d |-> Nat] *)
(* where "none" stands for Python's None in an Optional[float] field.      *)
(***************************************************************************)
EXTENDS Integers, Sequences, FiniteSets, TLC

(* ------------------------------------------------------------------ *)
(* Bounds of the model                                                 *)
(* ------------------------------------------------------------------ *)
MaxUpdates == 2      \* update() calls per behaviour of Spec
MaxRun == 3          \* update() calls per behaviour of SpecRun
TimeUnit == 5        \* seconds between two timestamps of the time grid
MaxTick == 4         \* the time grid is 0, TimeUnit, ..., MaxTick*TimeUnit
MaxPacketLen == 94   \* packets of 0..MaxPacketLen bytes are decoded
MaxParses == 2       \* parse_stress_packet calls per behaviour of SpecDecode
MaxStride == 2       \* greatest step between two stress bytes decoded in a row
MaxNotifications == 3 \* notification_callback calls per behaviour of SpecMonitor
MaxReadings == 62    \* add_reading calls per behaviour of SpecHistory
MaxTrack == 3        \* add_reading calls per behaviour of SpecTracker
MaxSession == 5      \* readings per list handed to analyze_session
MaxDecisions == 2    \* decide_state calls per behaviour of SpecAgent
MaxEntries == 2      \* entries of the signals map of a SignalPacket
MaxQueued == 3       \* packets put on the queue of the reader
MaxSize == 2         \* the queue is unbounded or bounded by 1..MaxSize
MaxPairCalls == 3    \* calls made on the two engines and the two analyzers
MaxLogged == 3       \* notification_callback calls on the data logger
MaxBounded == 4      \* update() calls per behaviour of SpecBounded
MaxConnectorCalls == 3 \* calls made on the NuanicConnector
MaxHrLen == 3        \* bytes of a Heart Rate Measurement payload
MaxHeartCalls == 2   \* _notification_handler calls per behaviour of SpecHeart

(* ------------------------------------------------------------------ *)
(* Float arithmetic (Python float operators used by the engine)        *)
(* ------------------------------------------------------------------ *)
RECURSIVE GCD(_, _)
GCD(a, b) == IF b = 0 THEN a ELSE GCD(b, a % b)

LCM(a, b) == (a \div GCD(a, b)) * b

AbsInt(i) == IF i < 0 THEN -i ELSE i

Fin(n, d) ==
    LET g == GCD(AbsInt(n), d)
    IN  [k |-> "fin", n |-> n \div g, d |-> d \div g]

NaN == [k |-> "nan", n |-> 0, d |-> 1]
PInf == [k |-> "pinf", n |-> 0, d |-> 1]
NInf == [k |-> "ninf", n |-> 0, d |-> 1]
None == [k |-> "none", n |-> 0, d |-> 1]

Zero == Fin(0, 1)
One == Fin(1, 1)
Half == Fin(1, 2)

\* sign of a non-NaN float: -1, 0 or 1
Sign(a) ==
    CASE a.k = "pinf" -> 1
      [] a.k = "ninf" -> -1
      [] OTHER -> IF a.n > 0 THEN 1 ELSE IF a.n < 0 THEN -1 ELSE 0

InfOfSign(s) == IF s > 0 THEN PInf ELSE NInf

FNeg(a) ==
    CASE a.k = "nan" -> NaN
      [] a.k = "pinf" -> NInf
      [] a.k = "ninf" -> PInf
      [] OTHER -> Fin(-a.n, a.d)

FAdd(a, b) ==
    CASE a.k = "nan" \/ b.k = "nan" -> NaN
      [] a.k = "fin" /\ b.k = "fin" ->
            Fin(a.n * (LCM(a.d, b.d) \div a.d) + b.n * (LCM(a.d, b.d) \div b.d),
                LCM(a.d, b.d))
      [] a.k = "fin" -> b
      [] b.k = "fin" -> a
      [] OTHER -> IF a.k = b.k THEN a ELSE NaN

FSub(a, b) == FAdd(a, FNeg(b))

FMul(a, b) ==
    CASE a.k = "nan" \/ b.k = "nan" -> NaN
      [] a.k = "fin" /\ b.k = "fin" ->
            LET g == GCD(AbsInt(a.n), b.d)
                h == GCD(AbsInt(b.n), a.d)
            IN  Fin((a.n \div g) * (b.n \div h), (a.d \div h) * (b.d \div g))
      [] OTHER -> IF Sign(a) = 0 \/ Sign(b) = 0
                  THEN NaN
                  ELSE InfOfSign(Sign(a) * Sign(b))

FAbs(a) ==
    CASE a.k = "nan" -> NaN
      [] a.k = "fin" -> Fin(AbsInt(a.n), a.d)
      [] OTHER -> PInf

\* a < b ; every comparison with NaN is False
FLt(a, b) ==
    CASE a.k = "nan" \/ b.k = "nan" -> FALSE
      [] a.k = "fin" /\ b.k = "fin" ->
            a.n * (LCM(a.d, b.d) \div a.d) < b.n * (LCM(a.d, b.d) \div b.d)
      [] a.k = "ninf" -> b.k # "ninf"
      [] b.k = "pinf" -> a.k # "pinf"
      [] OTHER -> FALSE

FEq(a, b) == a.k # "nan" /\ b.k # "nan" /\ a = b

FLe(a, b) == FLt(a, b) \/ FEq(a, b)

FGe(a, b) == FLe(b, a)

FGt(a, b) == FLt(b, a)

(* ------------------------------------------------------------------ *)
(* StressEngine: configuration, inputs                                 *)
(* ------------------------------------------------------------------ *)
StressState == {"NEUTRAL", "STRESS", "NO_STRESS"}

\* UATRConfig() with its default field values
UATRConfig ==
    [evidence_weight |-> Fin(7, 10), decay |-> Fin(9, 10),
     threshold_high |-> Fin(7, 10), threshold_low |-> Fin(3, 10),
     min_state_seconds |-> Fin(10, 1), change_cost |-> Fin(1, 10)]

\* UATRConfig(min_state_seconds=0.0, decay=0.0, evidence_weight=1.0)
TestConfig ==
    [UATRConfig EXCEPT !.evidence_weight = One, !.decay = Zero,
                       !.min_state_seconds = Zero]

\* as TestConfig, with the default dwell time
DirectConfig == [UATRConfig EXCEPT !.evidence_weight = One, !.decay = Zero]

\* full evidence weight, memory of one half, default dwell time
HalfConfig == [UATRConfig EXCEPT !.evidence_weight = One, !.decay = Half]

\* as TestConfig, with a change cost above threshold_high - 0.5
CostlyConfig == [TestConfig EXCEPT !.change_cost = Fin(3, 10)]

\* the default weights with a short memory, and with no memory at all
QuickConfig == [UATRConfig EXCEPT !.decay = Fin(1, 10)]

MemorylessConfig == [UATRConfig EXCEPT !.decay = Zero]

Configs == {UATRConfig, TestConfig, DirectConfig, CostlyConfig}

Times == {Fin(t * TimeUnit, 1) : t \in 0..MaxTick}

\* scores across and outside [0,1], on the thresholds, and the IEEE specials
Scores ==
    {Fin(3, 10), Fin(3, 5), Fin(7, 10), Fin(3, 2), NaN, PInf}

StressSignal(s, t) == [score |-> s, confidence |-> One, timestamp |-> t]

Signals == {StressSignal(s, t) : s \in Scores, t \in Times \cup {None}}

VARIABLES
    config,        \* StressEngine.config
    state,         \* StressEngine._state
    score,         \* StressEngine._score
    last_change,   \* StressEngine._last_change
    clock,         \* the last value read from the wall clock by time()
    nupdates,      \* number of update() calls made
    call,          \* the most recent update() call: arguments, pre-state, result
    run,           \* what is observed of the sequence of update() calls
    packet,        \* the bytes handed to parse_stress_packet
    parsed,        \* what the most recent parse_stress_packet call returned
    nparsed,       \* number of parse_stress_packet calls made
    now,           \* the last value read from datetime.now()
    earlier,       \* what the parse_stress_packet call before the last returned
    monitor,       \* NuanicMonitor: current_stress, current_eda_raw
    notified,      \* what is observed of the notification_callback calls
    analyzer,      \* NuanicEDAAnalyzer: baseline, eda_history, peaks, last_update
    pending,       \* the readings the caller has still to feed to add_reading
    reading,       \* what is observed of the add_reading calls
    session,       \* the list handed to analyze_session and what it returned
    agent,         \* CognitiveAgent: config, and its last two decide_state calls
    wire,          \* a SignalPacket, its JSON line and the packet parsed back
    source,        \* the queue.Queue between QueueSink and the reader loop
    reader,        \* run_reader: its position, its arguments and its calls
    producer,      \* the caller of QueueSink.send: its position and packets
    pair,          \* two StressEngine and two NuanicEDAAnalyzer objects
    logger,        \* NuanicDataLogger: row_count, its CSV file, what it received
    connector,     \* NuanicConnector: device, client, the BLE link, its calls
    heart          \* HeartRate: its arguments and its last notification

engineVars == <<config, state, score, last_change, clock, nupdates, call>>

decodeVars == <<packet, parsed, nparsed, now>>

monitorVars == <<earlier, monitor, notified>>

\* the parts of the program an engine or a bare decoder call does not touch
analyzerVars == <<analyzer, pending, reading>>

\* the queue between the transport side and the reader loop
streamVars == <<source, reader, producer>>

edgeVars == <<streamVars, pair, logger, connector, heart>>

\* what the reader and the sink leave alone, and what a call on one of the
\* paired objects leaves alone
offStream == <<pair, logger, connector, heart>>

offPair == <<streamVars, logger, connector, heart>>

offLogger == <<streamVars, pair, connector, heart>>

offConnector == <<streamVars, pair, logger, heart>>

offHeart == <<streamVars, pair, logger, connector>>

\* everything but the edge of the pipeline
coreVars == <<engineVars, run, decodeVars, monitorVars, analyzerVars, session,
              agent, wire>>

restVars == <<monitorVars, analyzerVars, session, agent, wire, edgeVars>>

vars == <<engineVars, run, decodeVars, restVars>>

(* ------------------------------------------------------------------ *)
(* StressEngine.update and its parts                                   *)
(* ------------------------------------------------------------------ *)

\* the smoother with the evidence weight left out
SmoothUnweighted(cfg, old, s) ==
    FAdd(FMul(cfg.decay, old), FMul(FSub(One, cfg.decay), s))

\* self._score = decay * self._score + (1 - decay) * (evidence_weight * signal.score)
Smooth(cfg, old, s) ==
    FAdd(FMul(cfg.decay, old),
         FMul(FSub(One, cfg.decay), FMul(cfg.evidence_weight, s)))

\* the guard with the time of the last change left out of the comparison
DwellGuardAbsolute(cfg, ts, last) == FLt(ts, cfg.min_state_seconds)

\* the guard never holding
DwellGuardOff(cfg, ts, last) == FALSE

\* ts - self._last_change < self.config.min_state_seconds
DwellGuard(cfg, ts, last) == FLt(FSub(ts, last), cfg.min_state_seconds)

\* _decide_state with strict comparisons
DecideStateStrict(cfg, sc) ==
    IF FGt(sc, cfg.threshold_high) THEN "STRESS"
    ELSE IF FLt(sc, cfg.threshold_low) THEN "NO_STRESS"
    ELSE "NEUTRAL"

\* _decide_state rejecting a score that is not within [0, 1]
DecideStateValidating(cfg, sc) ==
    IF ~(FGe(sc, Zero) /\ FLe(sc, One)) THEN "ValueError"
    ELSE IF FGe(sc, cfg.threshold_high) THEN "STRESS"
    ELSE IF FLe(sc, cfg.threshold_low) THEN "NO_STRESS"
    ELSE "NEUTRAL"

\* StressEngine._decide_state
DecideState(cfg, sc) ==
    IF FGe(sc, cfg.threshold_high) THEN "STRESS"
    ELSE IF FLe(sc, cfg.threshold_low) THEN "NO_STRESS"
    ELSE "NEUTRAL"

\* the change-cost test with a strict comparison
DecisiveStrict(cfg, sc) == FGt(FAbs(FSub(sc, Half)), cfg.change_cost)

\* abs(self._score - 0.5) >= self.config.change_cost
Decisive(cfg, sc) == FGe(FAbs(FSub(sc, Half)), cfg.change_cost)

NoCandidate == "NOT_COMPUTED"

\* update() with the dwell guard evaluated before the score is smoothed
UpdateResultGuardFirst(cfg, eng, signal, ts) ==
    LET sc == Smooth(cfg, eng.score, signal.score)
    IN  IF DwellGuard(cfg, ts, eng.last_change)
        THEN [state |-> eng.state, score |-> eng.score,
              last_change |-> eng.last_change,
              candidate |-> NoCandidate, ret |-> eng.state]
        ELSE LET next_state == DecideState(cfg, sc)
             IN  IF next_state # eng.state /\ Decisive(cfg, sc)
                 THEN [state |-> next_state, score |-> sc, last_change |-> ts,
                       candidate |-> next_state, ret |-> next_state]
                 ELSE [state |-> eng.state, score |-> sc,
                       last_change |-> eng.last_change,
                       candidate |-> next_state, ret |-> eng.state]

\* update() stamping last_change on every call that passes the dwell guard
UpdateResultStamping(cfg, eng, signal, ts) ==
    LET sc == Smooth(cfg, eng.score, signal.score)
    IN  IF DwellGuard(cfg, ts, eng.last_change)
        THEN [state |-> eng.state, score |-> sc, last_change |-> eng.last_change,
              candidate |-> NoCandidate, ret |-> eng.state]
        ELSE LET next_state == DecideState(cfg, sc)
             IN  IF next_state # eng.state /\ Decisive(cfg, sc)
                 THEN [state |-> next_state, score |-> sc, last_change |-> ts,
                       candidate |-> next_state, ret |-> next_state]
                 ELSE [state |-> eng.state, score |-> sc, last_change |-> ts,
                       candidate |-> next_state, ret |-> eng.state]

\* The body of update() from the resolved timestamp on: the new engine fields,
\* the candidate state (when the code computes one) and the returned state.
UpdateResult(cfg, eng, signal, ts) ==
    LET sc == Smooth(cfg, eng.score, signal.score)
    IN  IF DwellGuard(cfg, ts, eng.last_change)
        THEN [state |-> eng.state, score |-> sc, last_change |-> eng.last_change,
              candidate |-> NoCandidate, ret |-> eng.state]
        ELSE LET next_state == DecideState(cfg, sc)
             IN  IF next_state # eng.state /\ Decisive(cfg, sc)
                 THEN [state |-> next_state, score |-> sc, last_change |-> ts,
                       candidate |-> next_state, ret |-> next_state]
                 ELSE [state |-> eng.state, score |-> sc,
                       last_change |-> eng.last_change,
                       candidate |-> next_state, ret |-> eng.state]

Engine == [state |-> state, score |-> score, last_change |-> last_change]

\* StressSignal.resolved_time: the timestamp, or a reading of the wall clock
\* when the timestamp is None; between two readings the clock stands still
\* or advances by one step of the time grid
ResolvedTimes(signal) ==
    IF signal.timestamp # None
    THEN {signal.timestamp}
    ELSE {clock, FAdd(clock, Fin(TimeUnit, 1))} \cap Times

NoCall ==
    [called |-> FALSE, signal |-> StressSignal(Zero, None), ts |-> Zero,
     pre |-> [state |-> "NEUTRAL", score |-> Half, last_change |-> Zero],
     candidate |-> NoCandidate, ret |-> "NEUTRAL"]

\* an engine that starts as if it had never changed state
EngineInitNeverChanged ==
    /\ config \in Configs \cup {HalfConfig, QuickConfig, MemorylessConfig}
    /\ state = "NEUTRAL"
    /\ score = Half
    /\ last_change = NInf
    /\ clock = Zero
    /\ nupdates = 0
    /\ call = NoCall

\* StressEngine.__init__, for each configuration of the model
EngineInit ==
    /\ config \in Configs \cup {HalfConfig, QuickConfig, MemorylessConfig}
    /\ state = "NEUTRAL"
    /\ score = Half
    /\ last_change = Zero
    /\ clock = Zero
    /\ nupdates = 0
    /\ call = NoCall

\* one call engine.update(signal)
Update(signal, ts) ==
    LET r == UpdateResult(config, Engine, signal, ts)
    IN  /\ state' = r.state
        /\ score' = r.score
        /\ last_change' = r.last_change
        /\ clock' = IF signal.timestamp = None THEN ts ELSE clock
        /\ nupdates' = nupdates + 1
        /\ call' = [called |-> TRUE, signal |-> signal, ts |-> ts, pre |-> Engine,
                    candidate |-> r.candidate, ret |-> r.ret]
        /\ UNCHANGED config

UpdateCall ==
    /\ nupdates < MaxUpdates
    /\ \E signal \in Signals : \E ts \in ResolvedTimes(signal) : Update(signal, ts)
    /\ UNCHANGED <<run, decodeVars, restVars>>

(* ------------------------------------------------------------------ *)
(* NuanicMonitor.parse_stress_packet                                   *)
(* ------------------------------------------------------------------ *)
\* A packet is a sequence of bytes; byte i of the Python object is packet[i+1].
\* The packets of the model: every length 0..MaxPacketLen, filled with zeros
\* (bytearray(n)), with the offsets themselves, or with a pattern that wraps
\* around 256 and puts 255 at offset 14.
Fills == {[mul |-> 0, add |-> 0], [mul |-> 1, add |-> 0], [mul |-> 3, add |-> 213]}

PacketOf(len, f) == [i \in 1..len |-> ((i - 1) * f.mul + f.add) % 256]

Packets == {PacketOf(len, f) : len \in 0..MaxPacketLen, f \in Fills}

IndexError == -1

\* data[i]
Byte(data, i) == IF i < Len(data) THEN data[i + 1] ELSE IndexError

\* data[i:]
SliceFrom(data, i) == SubSeq(data, i + 1, Len(data))

HexDigits ==
    <<"0", "1", "2", "3", "4", "5", "6", "7",
      "8", "9", "a", "b", "c", "d", "e", "f">>

\* bytes.hex(): two lower-case hexadecimal digits per byte, high nibble first
Hex(data) ==
    [i \in 1..(2 * Len(data)) |->
        IF i % 2 = 1
        THEN HexDigits[(data[(i + 1) \div 2] \div 16) + 1]
        ELSE HexDigits[(data[i \div 2] % 16) + 1]]

\* len(data) < 14: the length test one byte too low
TooShortOffByOne(data) == Len(data) < 14

\* len(data) < 15
TooShort(data) == Len(data) < 15

\* stress_raw = data[14]
StressByte(data) == Byte(data, 14)

\* the byte scaled by 256 instead of 255
StressPercentOf256(raw) == FMul(Fin(raw, 256), Fin(100, 1))

\* stress_percent = (stress_raw / 255) * 100
StressPercent(raw) == FMul(Fin(raw, 255), Fin(100, 1))

\* the slice starting one byte late
EdaBytesFromSixteen(data) == IF Len(data) > 15 THEN SliceFrom(data, 16) ELSE <<>>

\* eda_raw = data[15:] if len(data) > 15 else bytes()
EdaBytes(data) == IF Len(data) > 15 THEN SliceFrom(data, 15) ELSE <<>>

NoDict ==
    [timestamp |-> 0, stress_raw |-> 0, stress_percent |-> Zero,
     eda_raw |-> <<>>, full_data |-> <<>>]

\* kind: "None" (the function returned None), "dict" (it returned the dict in
\* value), "raise" (it raised), "idle" (not called yet)
ParseResult(kind, value) == [kind |-> kind, value |-> value]

\* a decoder folding the reading of the clock into the stress value
ParseStressPacketClocked(data, ts) ==
    IF TooShort(data)
    THEN ParseResult("None", NoDict)
    ELSE ParseResult("dict",
             [timestamp |-> ts,
              stress_raw |-> (StressByte(data) + ts) % 256,
              stress_percent |-> StressPercent((StressByte(data) + ts) % 256),
              eda_raw |-> Hex(EdaBytes(data)),
              full_data |-> Hex(data)])

\* parse_stress_packet(data), with ts the value datetime.now() returns
ParseStressPacket(data, ts) ==
    IF TooShort(data)
    THEN ParseResult("None", NoDict)
    ELSE IF StressByte(data) = IndexError
    THEN ParseResult("raise", NoDict)
    ELSE ParseResult("dict",
             [timestamp |-> ts,
              stress_raw |-> StressByte(data),
              stress_percent |-> StressPercent(StressByte(data)),
              eda_raw |-> Hex(EdaBytes(data)),
              full_data |-> Hex(data)])

\* no packet is being decoded
DecodeIdle ==
    /\ packet = <<>>
    /\ parsed = ParseResult("idle", NoDict)
    /\ nparsed = 0
    /\ now = 0

\* one call monitor.parse_stress_packet(packet); datetime.now() returns the
\* value of its previous reading or a later one
ParseCall ==
    /\ nparsed < MaxParses
    /\ \E ts \in {now, now + 1} :
          /\ parsed' = ParseStressPacket(packet, ts)
          /\ now' = ts
    /\ nparsed' = nparsed + 1
    /\ earlier' = parsed
    /\ UNCHANGED <<packet, engineVars, run, monitor, notified, analyzerVars,
                   session, agent, wire, edgeVars>>

(* ------------------------------------------------------------------ *)
(* A run of update() calls on one engine, observed from outside        *)
(* ------------------------------------------------------------------ *)
\* a score of 0.95, as fed by a caller reporting sustained high stress
HighScore == Fin(19, 20)

\* scores just below and just above threshold_high
NoisyScores ==
    {FSub(UATRConfig.threshold_high, Fin(1, 100)),
     FAdd(UATRConfig.threshold_high, Fin(1, 100))}

RunScores == NoisyScores \cup {HighScore}

RunConfigs == {UATRConfig, TestConfig, DirectConfig, HalfConfig}

FMax(a, b) == IF FLt(a, b) THEN b ELSE a

FMin(a, b) == IF FLt(b, a) THEN b ELSE a

\* n: calls made; changes: calls that changed the state; lo, hi: least and
\* greatest timestamp fed; prev: the last timestamp fed; gap: greatest distance
\* between two consecutive timestamps; narrow: every score fed is one of
\* NoisyScores; high: every score fed is HighScore
NoRun ==
    [n |-> 0, changes |-> 0, lo |-> Zero, hi |-> Zero, prev |-> Zero,
     gap |-> Zero, narrow |-> TRUE, high |-> TRUE]

Observe(r, signal, ts, changed) ==
    [n |-> r.n + 1,
     changes |-> IF changed THEN r.changes + 1 ELSE r.changes,
     lo |-> IF r.n = 0 THEN ts ELSE FMin(r.lo, ts),
     hi |-> IF r.n = 0 THEN ts ELSE FMax(r.hi, ts),
     prev |-> ts,
     gap |-> IF r.n = 0 THEN Zero ELSE FMax(r.gap, FAbs(FSub(ts, r.prev))),
     narrow |-> r.narrow /\ signal.score \in NoisyScores,
     high |-> r.high /\ signal.score = HighScore]

\* one call engine.update(StressSignal(score, confidence, timestamp)) of the run
RunCall ==
    /\ run.n < MaxRun
    /\ \E s \in RunScores, t \in Times :
          /\ Update(StressSignal(s, t), t)
          /\ run' = Observe(run, StressSignal(s, t), t, state' # state)
    /\ UNCHANGED <<decodeVars, restVars>>

BoundedConfigs == {UATRConfig, QuickConfig, MemorylessConfig, TestConfig}

\* scores within [0, 1]
UnitScores == {Zero, Half, One}

\* one call engine.update(signal) with a score within [0, 1], at time 0 or at
\* the end of the time grid
BoundedCall ==
    /\ nupdates < MaxBounded
    /\ \E s \in UnitScores, t \in {Zero, Fin(MaxTick * TimeUnit, 1)} :
          Update(StressSignal(s, t), t)
    /\ UNCHANGED <<run, decodeVars, restVars>>

(* ------------------------------------------------------------------ *)
(* Decoding a series of stress bytes                                   *)
(* ------------------------------------------------------------------ *)
RawBytes == 0..255

\* packet = bytearray(92); packet[14] = raw
TestPacket(raw) == [i \in 1..92 |-> IF i = 15 THEN raw ELSE 0]

\* the stress bytes decoded after the result p: any byte at first, then bytes
\* within MaxStride of the byte decoded last
NearRaws(p) ==
    IF p.kind = "dict"
    THEN {r \in RawBytes : AbsInt(r - p.value.stress_raw) <= MaxStride}
    ELSE RawBytes

\* NuanicMonitor.__init__: current_stress = None, current_eda_raw = None;
\* an Optional[str] is a record of kind "None" or "str"
NoneStr == [kind |-> "None", value |-> <<>>]

Str(h) == [kind |-> "str", value |-> h]

NewMonitor == [current_stress |-> None, current_eda_raw |-> NoneStr]

\* n: calls made; outcome: "return" or "raise" for the last call; pre: the
\* monitor's fields before the last call; last: the most recent payload of 15
\* bytes or more, seen: whether there has been one
NoNotification ==
    [n |-> 0, outcome |-> "idle", pre |-> NewMonitor, seen |-> FALSE,
     last |-> <<>>]

MonitorIdle ==
    /\ earlier = ParseResult("idle", NoDict)
    /\ monitor = NewMonitor
    /\ notified = NoNotification

\* one round of the conversion test: a 92-byte packet with a chosen stress
\* byte is decoded
ScaleCall ==
    /\ nparsed < MaxParses
    /\ \E raw \in NearRaws(parsed), ts \in {now, now + 1} :
          /\ packet' = TestPacket(raw)
          /\ parsed' = ParseStressPacket(TestPacket(raw), ts)
          /\ now' = ts
    /\ earlier' = parsed
    /\ nparsed' = nparsed + 1
    /\ UNCHANGED <<engineVars, run, monitor, notified, analyzerVars, session, agent, wire, edgeVars>>

(* ------------------------------------------------------------------ *)
(* NuanicMonitor.notification_callback                                 *)
(* ------------------------------------------------------------------ *)
\* notification payloads: empty, one byte short, stress byte only, full packet
PayloadLens == {0, 14, 15, 92}

Payloads == {PacketOf(len, f) : len \in PayloadLens, f \in Fills}

\* the callback forgetting the last reading when the payload does not parse
NotificationCallbackClearing(mon, p) ==
    IF p.kind = "dict"
    THEN [current_stress |-> p.value.stress_percent,
          current_eda_raw |-> Str(p.value.eda_raw)]
    ELSE NewMonitor

\* the body of notification_callback after parsed = parse_stress_packet(data):
\* "if parsed:" holds for the dict and fails for None
NotificationCallback(mon, p) ==
    IF p.kind = "dict"
    THEN [current_stress |-> p.value.stress_percent,
          current_eda_raw |-> Str(p.value.eda_raw)]
    ELSE mon

\* a monitor before its first notification, and after a notification of a
\* 15-byte and of a 92-byte packet
MonitorStates ==
    {NewMonitor} \cup
    {NotificationCallback(NewMonitor, ParseStressPacket(d, 0)) :
        d \in {PacketOf(15, [mul |-> 3, add |-> 213]), TestPacket(255)}}

\* one call monitor.notification_callback(sender, data)
NotifyCall ==
    /\ notified.n < MaxNotifications
    /\ \E data \in Payloads, ts \in {now, now + 1} :
          LET p == ParseStressPacket(data, ts)
          IN  /\ packet' = data
              /\ parsed' = p
              /\ now' = ts
              /\ monitor' = IF p.kind = "raise"
                            THEN monitor
                            ELSE NotificationCallback(monitor, p)
              /\ notified' =
                    [n |-> notified.n + 1,
                     outcome |-> IF p.kind = "raise" THEN "raise" ELSE "return",
                     pre |-> monitor,
                     seen |-> notified.seen \/ Len(data) >= 15,
                     last |-> IF Len(data) >= 15 THEN data ELSE notified.last]
    /\ earlier' = parsed
    /\ nparsed' = nparsed + 1
    /\ UNCHANGED <<engineVars, run, analyzerVars, session, agent, wire, edgeVars>>

(* ------------------------------------------------------------------ *)
(* NuanicEDAAnalyzer.add_reading                                       *)
(* ------------------------------------------------------------------ *)
\* MIN_PEAK_HEIGHT = 0.1
MIN_PEAK_HEIGHT == Fin(1, 10)

\* the length eda_history is cut back to
HistoryLimit == 60

\* a / k for a positive int k
FDivInt(a, k) == FMul(a, Fin(1, k))

RECURSIVE FSum(_)
FSum(h) == IF h = <<>> THEN Zero ELSE FAdd(Head(h), FSum(Tail(h)))

RECURSIVE FMinSeq(_)
FMinSeq(h) == IF Len(h) = 1 THEN h[1] ELSE FMin(h[1], FMinSeq(Tail(h)))

RECURSIVE FMaxSeq(_)
FMaxSeq(h) == IF Len(h) = 1 THEN h[1] ELSE FMax(h[1], FMaxSeq(Tail(h)))

\* h[-10:]
LastTen(h) == SubSeq(h, IF Len(h) > 10 THEN Len(h) - 9 ELSE 1, Len(h))

\* the cut dropping the newest reading
TrimNewest(h) ==
    IF Len(h) > HistoryLimit THEN SubSeq(h, 1, Len(h) - 1) ELSE h

\* if len(self.eda_history) > 60: self.eda_history.pop(0)
Trim(h) == IF Len(h) > HistoryLimit THEN Tail(h) ELSE h

\* the moving average with the two weights exchanged
UpdateBaselineSwapped(b, v) ==
    IF b = None
    THEN v
    ELSE FAdd(FMul(FSub(One, Fin(1, 50)), v), FMul(Fin(1, 50), b))

\* update_baseline: alpha = 0.02
UpdateBaseline(b, v) ==
    IF b = None
    THEN v
    ELSE FAdd(FMul(Fin(1, 50), v), FMul(FSub(One, Fin(1, 50)), b))

\* detect_peak without the test against MIN_PEAK_HEIGHT
DetectPeakNoHeight(an, v) ==
    IF an.baseline = None \/ Len(an.eda_history) < 2
    THEN FALSE
    ELSE LET current_rise == FSub(v, an.baseline)
             recent_rise ==
                 IF an.eda_history # <<>>
                 THEN FSub(an.eda_history[Len(an.eda_history)], an.baseline)
                 ELSE Zero
         IN  FGe(current_rise, FMul(recent_rise, Fin(4, 5)))

\* detect_peak, called with the reading already appended to eda_history and
\* the baseline already updated
DetectPeak(an, v) ==
    IF an.baseline = None \/ Len(an.eda_history) < 2
    THEN FALSE
    ELSE LET current_rise == FSub(v, an.baseline)
             recent_rise ==
                 IF an.eda_history # <<>>
                 THEN FSub(an.eda_history[Len(an.eda_history)], an.baseline)
                 ELSE Zero
         IN  /\ FGt(current_rise, MIN_PEAK_HEIGHT)
             /\ FGe(current_rise, FMul(recent_rise, Fin(4, 5)))

\* last_update = None; a reading of datetime.now() is never negative
NoTime == -1

\* NuanicEDAAnalyzer.__init__
NewAnalyzer ==
    [baseline |-> None, eda_history |-> <<>>, peaks |-> <<>>,
     last_update |-> NoTime]

NoStats ==
    [current_value |-> Zero, baseline |-> None, tonic |-> None, phasic |-> Zero,
     is_peak |-> FALSE, history_length |-> 0, min_recent |-> Zero,
     max_recent |-> Zero, avg_recent |-> Zero]

\* add_reading(v) with ts the value datetime.now() returns: the analyzer after
\* the call and the dict returned
AddReading(an, v, ts) ==
    LET h == Trim(Append(an.eda_history, v))
        b == UpdateBaseline(an.baseline, v)
        after == [an EXCEPT !.eda_history = h, !.last_update = ts,
                            !.baseline = b]
    IN  [analyzer |-> after,
         stats |-> [current_value |-> v,
                    baseline |-> b,
                    tonic |-> b,
                    phasic |-> FSub(v, b),
                    is_peak |-> DetectPeak(after, v),
                    history_length |-> Len(h),
                    min_recent |-> FMinSeq(LastTen(h)),
                    max_recent |-> FMaxSeq(LastTen(h)),
                    avg_recent |->
                        FDivInt(FSum(LastTen(h)),
                                IF Len(h) < 10 THEN Len(h) ELSE 10)]]

\* fed: every reading fed so far, in arrival order; pre: the analyzer before
\* the last call; stats: what the last call returned
NoReading == [fed |-> <<>>, pre |-> NewAnalyzer, stats |-> NoStats]

AnalyzerIdle ==
    /\ analyzer = NewAnalyzer
    /\ pending = <<>>
    /\ reading = NoReading

\* one call analyzer.add_reading(v) for the next reading of the caller
AddReadingCall ==
    /\ pending # <<>>
    /\ \E ts \in {now, now + 1} :
          LET r == AddReading(analyzer, Head(pending), ts)
          IN  /\ analyzer' = r.analyzer
              /\ reading' = [fed |-> Append(reading.fed, Head(pending)),
                             pre |-> analyzer,
                             stats |-> r.stats]
              /\ now' = ts
    /\ pending' = Tail(pending)
    /\ UNCHANGED <<engineVars, run, packet, parsed, nparsed, monitorVars, session, agent, wire, edgeVars>>

\* resting levels of the readings fed in long runs
Levels == {Zero, Fin(100, 1)}

\* a long run of one value
Flat(v) == [i \in 1..MaxReadings |-> v]

\* a long run that rises by one from the second reading on, after a first
\* step of 50
Ramp(v) ==
    [i \in 1..MaxReadings |-> IF i = 1 THEN v ELSE FAdd(v, Fin(48 + i, 1))]

\* 20 readings of one value v, then v + 50, then v + 1 from there on
Spike(v) ==
    [i \in 1..MaxReadings |->
        IF i <= 20 THEN v
        ELSE IF i = 21 THEN FAdd(v, Fin(50, 1))
        ELSE FAdd(v, One)]

LongFeeds == UNION {{Flat(v), Ramp(v), Spike(v)} : v \in Levels}

\* readings of the short runs: at rest, slightly above, far above
TrackReadings == {Fin(100, 1), Fin(101, 1), Fin(102, 1), Fin(150, 1)}

ShortFeeds == [1..MaxTrack -> TrackReadings]

(* ------------------------------------------------------------------ *)
(* NuanicEDAAnalyzer.analyze_session                                   *)
(* ------------------------------------------------------------------ *)
\* values = [v[1] for v in readings]
Values(readings) == [i \in 1..Len(readings) |-> readings[i].v]

\* mean_val = sum(values) / len(values)
Mean(values) == FDivInt(FSum(values), Len(values))

\* sum((v - mean_val) ** 2 for v in values) / len(values)
Variance(values) ==
    LET m == Mean(values)
        sq == [i \in 1..Len(values) |->
                 FMul(FSub(values[i], m), FSub(values[i], m))]
    IN  FDivInt(FSum(sq), Len(values))

\* val > mean_val + std_dev, with std_dev = variance ** 0.5 the non-negative
\* square root: val - mean_val is positive and its square exceeds the variance
AboveLevel(val, values) ==
    LET rise == FSub(val, Mean(values))
    IN  FGt(rise, Zero) /\ FGt(FMul(rise, rise), Variance(values))

\* val <= mean_val + std_dev
AtOrBelowLevel(val, values) ==
    LET rise == FSub(val, Mean(values))
    IN  FLe(rise, Zero) \/ FLe(FMul(rise, rise), Variance(values))

\* the loop counting every reading above the level
RECURSIVE CountPeaksEvery(_, _, _, _)
CountPeaksEvery(values, i, prev_was_peak, peak_count) ==
    IF i > Len(values)
    THEN peak_count
    ELSE IF AboveLevel(values[i], values)
    THEN CountPeaksEvery(values, i + 1, TRUE, peak_count + 1)
    ELSE CountPeaksEvery(values, i + 1, FALSE, peak_count)

\* the loop "for val in values" from its i-th round on
RECURSIVE CountPeaks(_, _, _, _)
CountPeaks(values, i, prev_was_peak, peak_count) ==
    IF i > Len(values)
    THEN peak_count
    ELSE IF AboveLevel(values[i], values) /\ ~prev_was_peak
    THEN CountPeaks(values, i + 1, TRUE, peak_count + 1)
    ELSE IF AtOrBelowLevel(values[i], values)
    THEN CountPeaks(values, i + 1, FALSE, peak_count)
    ELSE CountPeaks(values, i + 1, prev_was_peak, peak_count)

\* the emptiness test letting a single reading count as none
NoReadingsUpToOne(readings) == Len(readings) <= 1

\* not readings
NoReadings(readings) == readings = <<>>

NoSessionStats ==
    [duration_seconds |-> Zero, reading_count |-> 0, min_value |-> Zero,
     max_value |-> Zero, mean_value |-> Zero, range |-> Zero, peak_count |-> 0,
     peaks_per_minute |-> Zero]

SessionResult(kind, value) == [kind |-> kind, value |-> value]

\* analyze_session(readings); a reading is (timestamp, value), the timestamp
\* counted in seconds
AnalyzeSession(readings) ==
    IF NoReadings(readings)
    THEN SessionResult("None", NoSessionStats)
    ELSE LET values == Values(readings)
             peak_count == CountPeaks(values, 1, FALSE, 0)
             duration == readings[Len(readings)].t - readings[1].t
         IN  SessionResult("dict",
                 [duration_seconds |-> Fin(duration, 1),
                  reading_count |-> Len(readings),
                  min_value |-> FMinSeq(values),
                  max_value |-> FMaxSeq(values),
                  mean_value |-> Mean(values),
                  range |-> FSub(FMaxSeq(values), FMinSeq(values)),
                  peak_count |-> peak_count,
                  peaks_per_minute |->
                      IF duration > 0
                      THEN FMul(Fin(peak_count, duration), Fin(60, 1))
                      ELSE Zero])

\* values and spacings (seconds) of the sessions analysed
SessionValues == {Zero, Fin(5, 1), Fin(10, 1)}

Spacings == {0, 1, 30}

Sessions ==
    UNION {{[i \in 1..n |-> [t |-> i * step, v |-> vs[i]]] :
                vs \in [1..n -> SessionValues], step \in Spacings} :
           n \in 0..MaxSession}

SessionIdle == session = [readings |-> <<>>, result |-> SessionResult("idle", NoSessionStats)]

\* one call analyzer.analyze_session(readings)
AnalyzeCall ==
    /\ session.result.kind = "idle"
    /\ session' = [session EXCEPT !.result = AnalyzeSession(session.readings)]
    /\ UNCHANGED <<engineVars, run, decodeVars, monitorVars, analyzerVars, agent, wire, edgeVars>>

(* ------------------------------------------------------------------ *)
(* CognitiveAgent.decide_state                                         *)
(* ------------------------------------------------------------------ *)
AdaptiveState == {"MONITOR", "ASSIST", "DE_ESCALATE", "PROVOKE"}

\* CognitiveAgentConfig() with its default field values
CognitiveAgentConfig ==
    [low_arousal |-> Fin(3, 10), high_arousal |-> Fin(7, 10),
     high_performance |-> Fin(7, 10)]

\* the two arousal thresholds equal, a lower performance threshold
NarrowAgentConfig ==
    [low_arousal |-> Fin(7, 10), high_arousal |-> Fin(7, 10),
     high_performance |-> Half]

\* low_arousal above high_arousal
CrossedAgentConfig ==
    [low_arousal |-> Fin(4, 5), high_arousal |-> Half,
     high_performance |-> Fin(7, 10)]

AgentConfigs == {CognitiveAgentConfig, NarrowAgentConfig, CrossedAgentConfig}

StressScores == {Fin(1, 10), Fin(3, 10), Half, Fin(7, 10), Fin(4, 5), NaN}

PerformanceScores == {Fin(1, 5), Half, Fin(7, 10), Fin(4, 5), NaN}

\* decide_state with strict comparisons
DecideAdaptiveStateStrict(cfg, stress_score, performance_score) ==
    IF FGt(stress_score, cfg.high_arousal)
    THEN IF FGt(performance_score, cfg.high_performance)
         THEN "ASSIST"
         ELSE "DE_ESCALATE"
    ELSE IF FLt(stress_score, cfg.low_arousal)
    THEN "PROVOKE"
    ELSE "MONITOR"

\* CognitiveAgent.decide_state
DecideAdaptiveState(cfg, stress_score, performance_score) ==
    IF FGe(stress_score, cfg.high_arousal)
    THEN IF FGe(performance_score, cfg.high_performance)
         THEN "ASSIST"
         ELSE "DE_ESCALATE"
    ELSE IF FLe(stress_score, cfg.low_arousal)
    THEN "PROVOKE"
    ELSE "MONITOR"

NoDecision ==
    [stress_score |-> Zero, performance_score |-> Zero, ret |-> "NOT_CALLED"]

\* CognitiveAgent.__init__; last and before are the two most recent calls
NewAgent(cfg) ==
    [config |-> cfg, calls |-> 0, last |-> NoDecision, before |-> NoDecision]

AgentIdle == agent = NewAgent(CognitiveAgentConfig)

\* one call agent.decide_state(stress_score, performance_score)
DecideCall ==
    /\ agent.calls < MaxDecisions
    /\ \E s \in StressScores, q \in PerformanceScores :
          agent' = [agent EXCEPT
                       !.calls = agent.calls + 1,
                       !.before = agent.last,
                       !.last = [stress_score |-> s,
                                 performance_score |-> q,
                                 ret |-> DecideAdaptiveState(agent.config, s, q)]]
    /\ UNCHANGED <<engineVars, run, decodeVars, monitorVars, analyzerVars, session, wire, edgeVars>>

(* ------------------------------------------------------------------ *)
(* SignalPacket.to_dict, to_json and the way back                      *)
(* ------------------------------------------------------------------ *)
\* A Python value: t is its type ("float", "int", "str", "none", "dict");
\* f, i, s, items hold the float, the int, the characters of the str and the
\* (key, value) pairs of the dict in insertion order.  A text is a sequence
\* of one-character strings.
PyFloat(x) == [t |-> "float", f |-> x, i |-> 0, s |-> <<>>, items |-> <<>>]

PyInt(n) == [t |-> "int", f |-> Zero, i |-> n, s |-> <<>>, items |-> <<>>]

PyStr(c) == [t |-> "str", f |-> Zero, i |-> 0, s |-> c, items |-> <<>>]

PyNone == [t |-> "none", f |-> Zero, i |-> 0, s |-> <<>>, items |-> <<>>]

PyDict(pairs) == [t |-> "dict", f |-> Zero, i |-> 0, s |-> <<>>, items |-> pairs]

Item(k, v) == [key |-> k, value |-> v]

DigitChars == <<"0", "1", "2", "3", "4", "5", "6", "7", "8", "9">>

\* decimal digits of a natural number
RECURSIVE NatDigits(_)
NatDigits(n) ==
    IF n < 10
    THEN <<DigitChars[n + 1]>>
    ELSE NatDigits(n \div 10) \o <<DigitChars[(n % 10) + 1]>>

\* int.__repr__
IntRepr(n) == IF n < 0 THEN <<"-">> \o NatDigits(-n) ELSE NatDigits(n)

\* digits after the point of r/d, 0 <= r < d, for a d dividing a power of ten
RECURSIVE FracDigits(_, _)
FracDigits(r, d) ==
    IF r = 0
    THEN <<>>
    ELSE <<DigitChars[((r * 10) \div d) + 1]>> \o FracDigits((r * 10) % d, d)

\* the float written without its sign
FloatReprUnsigned(x) ==
    CASE x.k = "nan" -> <<"N", "a", "N">>
      [] x.k = "pinf" -> <<"I", "n", "f", "i", "n", "i", "t", "y">>
      [] x.k = "ninf" -> <<"-", "I", "n", "f", "i", "n", "i", "t", "y">>
      [] OTHER ->
            NatDigits(AbsInt(x.n) \div x.d) \o <<".">>
              \o (IF AbsInt(x.n) % x.d = 0
                  THEN <<"0">>
                  ELSE FracDigits(AbsInt(x.n) % x.d, x.d))

\* float.__repr__ as json.dumps writes it, for floats printed without an
\* exponent: NaN, Infinity, -Infinity, or sign, integer digits, point and
\* fraction digits (a single 0 for a whole number)
FloatRepr(x) ==
    CASE x.k = "nan" -> <<"N", "a", "N">>
      [] x.k = "pinf" -> <<"I", "n", "f", "i", "n", "i", "t", "y">>
      [] x.k = "ninf" -> <<"-", "I", "n", "f", "i", "n", "i", "t", "y">>
      [] OTHER ->
            (IF x.n < 0 THEN <<"-">> ELSE <<>>)
              \o NatDigits(AbsInt(x.n) \div x.d) \o <<".">>
              \o (IF AbsInt(x.n) % x.d = 0
                  THEN <<"0">>
                  ELSE FracDigits(AbsInt(x.n) % x.d, x.d))

\* the characters of a str with quote and backslash escaped
RECURSIVE Escape(_)
Escape(c) ==
    IF c = <<>>
    THEN <<>>
    ELSE (IF Head(c) \in {"\"", "\\"} THEN <<"\\", Head(c)>> ELSE <<Head(c)>>)
           \o Escape(Tail(c))

StrRepr(c) == <<"\"">> \o Escape(c) \o <<"\"">>

\* json.dumps(v, separators=(",", ":"))
RECURSIVE Dumps(_)
RECURSIVE DumpItems(_, _)
DumpItems(pairs, j) ==
    IF j > Len(pairs)
    THEN <<>>
    ELSE (IF j > 1 THEN <<",">> ELSE <<>>)
           \o StrRepr(pairs[j].key) \o <<":">> \o Dumps(pairs[j].value)
           \o DumpItems(pairs, j + 1)

Dumps(v) ==
    CASE v.t = "float" -> FloatRepr(v.f)
      [] v.t = "int" -> IntRepr(v.i)
      [] v.t = "str" -> StrRepr(v.s)
      [] v.t = "none" -> <<"n", "u", "l", "l">>
      [] OTHER -> <<"{">> \o DumpItems(v.items, 1) \o <<"}">>

\* the character at a position of a text, "" past its end
At(txt, pos) == IF pos <= Len(txt) THEN txt[pos] ELSE ""

IsDigit(c) == \E d \in 1..10 : DigitChars[d] = c

DigitOf(c) == (CHOOSE d \in 1..10 : DigitChars[d] = c) - 1

\* the first position from pos on that holds no digit
RECURSIVE DigitsEnd(_, _)
DigitsEnd(txt, pos) ==
    IF IsDigit(At(txt, pos)) THEN DigitsEnd(txt, pos + 1) ELSE pos

\* the number written by the digits at positions from .. to - 1
RECURSIVE DigitsValue(_, _, _)
DigitsValue(txt, from, to) ==
    IF from >= to
    THEN 0
    ELSE DigitsValue(txt, from, to - 1) * 10 + DigitOf(txt[to - 1])

RECURSIVE Pow10(_)
Pow10(e) == IF e = 0 THEN 1 ELSE 10 * Pow10(e - 1)

\* the JSON scanner on a number: Infinity and -Infinity, a float when there
\* is a fraction part, an int otherwise
LoadNumber(txt, pos) ==
    LET neg == At(txt, pos) = "-"
        p1 == IF neg THEN pos + 1 ELSE pos
        p2 == DigitsEnd(txt, p1)
        whole == DigitsValue(txt, p1, p2)
    IN  IF At(txt, p1) = "I"
        THEN [v |-> PyFloat(IF neg THEN NInf ELSE PInf), pos |-> p1 + 8]
        ELSE IF At(txt, p2) = "."
        THEN LET p3 == DigitsEnd(txt, p2 + 1)
                 scale == Pow10(p3 - p2 - 1)
                 num == whole * scale + DigitsValue(txt, p2 + 1, p3)
             IN  [v |-> PyFloat(Fin(IF neg THEN -num ELSE num, scale)),
                  pos |-> p3]
        ELSE [v |-> PyInt(IF neg THEN -whole ELSE whole), pos |-> p2]

\* the JSON scanner on a string, from the position after the opening quote to
\* the position after the closing one
RECURSIVE LoadChars(_, _)
LoadChars(txt, pos) ==
    IF pos > Len(txt) \/ txt[pos] = "\""
    THEN [s |-> <<>>, pos |-> pos + 1]
    ELSE LET esc == txt[pos] = "\\"
             r == LoadChars(txt, IF esc THEN pos + 2 ELSE pos + 1)
         IN  [s |-> <<At(txt, IF esc THEN pos + 1 ELSE pos)>> \o r.s,
              pos |-> r.pos]

\* json.loads on the value starting at pos: the value and the position after it
RECURSIVE Loads(_, _)
RECURSIVE LoadItems(_, _)
LoadItems(txt, pos) ==
    LET k == LoadChars(txt, pos + 1)
        v == Loads(txt, k.pos + 1)
    IN  IF At(txt, v.pos) = ","
        THEN LET r == LoadItems(txt, v.pos + 1)
             IN  [items |-> <<Item(k.s, v.v)>> \o r.items, pos |-> r.pos]
        ELSE [items |-> <<Item(k.s, v.v)>>, pos |-> v.pos + 1]

Loads(txt, pos) ==
    CASE At(txt, pos) = "{" ->
            IF At(txt, pos + 1) = "}"
            THEN [v |-> PyDict(<<>>), pos |-> pos + 2]
            ELSE LET r == LoadItems(txt, pos + 1)
                 IN  [v |-> PyDict(r.items), pos |-> r.pos]
      [] At(txt, pos) = "\"" ->
            LET r == LoadChars(txt, pos + 1)
            IN  [v |-> PyStr(r.s), pos |-> r.pos]
      [] At(txt, pos) = "n" -> [v |-> PyNone, pos |-> pos + 4]
      [] At(txt, pos) = "N" -> [v |-> PyFloat(NaN), pos |-> pos + 3]
      [] OTHER -> LoadNumber(txt, pos)

\* the field names of SignalPacket
KeyTimestamp == <<"t", "i", "m", "e", "s", "t", "a", "m", "p">>

KeySource == <<"s", "o", "u", "r", "c", "e">>

KeySubjectId == <<"s", "u", "b", "j", "e", "c", "t", "_", "i", "d">>

KeySignals == <<"s", "i", "g", "n", "a", "l", "s">>

KeyFeatures == <<"f", "e", "a", "t", "u", "r", "e", "s">>

FieldNames == {KeyTimestamp, KeySource, KeySubjectId, KeySignals, KeyFeatures}

\* SignalPacket(timestamp, source, subject_id, signals, features)
SignalPacket(ts, src, sid, sig, feat) ==
    [timestamp |-> ts, source |-> src, subject_id |-> sid, signals |-> sig,
     features |-> feat]

\* SignalPacket.to_dict
ToDict(p) ==
    PyDict(<<Item(KeyTimestamp, p.timestamp),
             Item(KeySource, p.source),
             Item(KeySubjectId, p.subject_id),
             Item(KeySignals, PyDict(p.signals.items)),
             Item(KeyFeatures, PyDict(p.features.items))>>)

\* SignalPacket.to_json
ToJson(p) == Dumps(ToDict(p))

\* d[key] for a dict d holding the key
Lookup(d, key) ==
    d.items[CHOOSE j \in 1..Len(d.items) : d.items[j].key = key].value

HasKey(d, key) == \E j \in 1..Len(d.items) : d.items[j].key = key

\* the field defaults of the dataclass; the default timestamp is a reading of
\* the clock
DefaultPacket(ts) ==
    SignalPacket(PyFloat(Fin(ts, 1)), PyStr(<<"u", "n", "k", "n", "o", "w", "n">>),
                 PyNone, PyDict(<<>>), PyDict(<<>>))

\* SignalPacket(**d): TypeError for a key that is no field, the field default
\* for a field that is no key
FromDict(d, ts) ==
    IF \E j \in 1..Len(d.items) : d.items[j].key \notin FieldNames
    THEN [kind |-> "raise", value |-> DefaultPacket(ts)]
    ELSE LET get(key, dflt) == IF HasKey(d, key) THEN Lookup(d, key) ELSE dflt
             dp == DefaultPacket(ts)
         IN  [kind |-> "packet",
              value |-> SignalPacket(get(KeyTimestamp, dp.timestamp),
                                     get(KeySource, dp.source),
                                     get(KeySubjectId, dp.subject_id),
                                     get(KeySignals, dp.signals),
                                     get(KeyFeatures, dp.features))]

\* keys and values of the signals maps: a plain key and one holding a quote
\* and a backslash; floats, NaN, -Infinity, ints, None and a str
MapKeys == {<<"h", "r">>, <<"e", "\"", "\\">>}

MapValues ==
    {PyFloat(Fin(145, 2)), PyFloat(Fin(-1, 4)), PyFloat(Fin(100, 1)),
     PyFloat(NaN), PyFloat(NInf), PyInt(72), PyInt(-3), PyNone,
     PyStr(<<"o", "\"", "k">>)}

\* dicts of up to MaxEntries entries, the keys distinct
SignalMaps ==
    UNION {{PyDict([j \in 1..n |-> Item(ks[j], vs[j])]) :
                ks \in {q \in [1..n -> MapKeys] :
                           \A a, b \in 1..n : a # b => q[a] # q[b]},
                vs \in [1..n -> MapValues]} :
           n \in 0..MaxEntries}

FeatureMaps ==
    {PyDict(<<>>),
     PyDict(<<Item(<<"r", "m", "s", "s", "d">>, PyFloat(Fin(1, 8)))>>),
     PyDict(<<Item(<<"s", "d", "n", "n">>, PyFloat(NaN)),
              Item(<<"n">>, PyInt(0))>>)}

SubjectIds == {PyNone, PyStr(<<"s", "1">>)}

SignalPackets ==
    {SignalPacket(PyFloat(Fin(25, 2)), PyStr(<<"h", "1", "0">>), sid, sig, feat) :
        sid \in SubjectIds, sig \in SignalMaps, feat \in FeatureMaps}

NoBack == [kind |-> "none", value |-> DefaultPacket(0)]

\* stage: "new" (a packet exists), "sent" (its JSON line is written), "loaded"
\* (the line has been parsed back)
NewWire(p) == [stage |-> "new", packet |-> p, line |-> <<>>, back |-> NoBack]

WireIdle == wire = NewWire(DefaultPacket(0))

\* line = packet.to_json()
ToJsonCall ==
    /\ wire.stage = "new"
    /\ wire' = [wire EXCEPT !.stage = "sent", !.line = ToJson(wire.packet)]
    /\ UNCHANGED <<engineVars, run, decodeVars, monitorVars, analyzerVars,
                   session, agent, edgeVars>>

\* SignalPacket(**json.loads(line))
LoadCall ==
    /\ wire.stage = "sent"
    /\ wire' = [wire EXCEPT
                   !.stage = "loaded",
                   !.back = FromDict(Loads(wire.line, 1).v, now)]
    /\ UNCHANGED <<engineVars, run, decodeVars, monitorVars, analyzerVars,
                   session, agent, edgeVars>>

(* ------------------------------------------------------------------ *)
(* QueueSink.send, iter_queue and run_reader                           *)
(* ------------------------------------------------------------------ *)
\* queue.Queue(maxsize) holding items; maxsize 0 is an unbounded queue.
\* enqueued is every payload put on the queue so far, in the order of the puts
NewQueue(maxsize, items) ==
    [maxsize |-> maxsize, items |-> items, enqueued |-> items]

\* the condition put() waits on: a bounded queue holding maxsize items
Full(q) == q.maxsize > 0 /\ Len(q.items) >= q.maxsize

Put(q, x) ==
    [q EXCEPT !.items = Append(@, x), !.enqueued = Append(@, x)]

QueueGetNewest(items) ==
    [item |-> items[Len(items)], rest |-> SubSeq(items, 1, Len(items) - 1)]

\* source.get() on a queue holding an item
QueueGet(items) == [item |-> Head(items), rest |-> Tail(items)]

\* the rows of the replayed dataset as iter_csv yields them, and a plain dict
ReplayPacket(hr, rmssd) ==
    SignalPacket(PyFloat(Fin(25, 2)), PyStr(<<"t", "e", "s", "t">>), PyNone,
                 PyDict(<<Item(<<"h", "r", "_", "b", "p", "m">>, PyInt(hr))>>),
                 PyDict(<<Item(<<"r", "m", "s", "s", "d">>, PyFloat(rmssd))>>))

ReplayPackets ==
    {ReplayPacket(70, Fin(91, 2)), ReplayPacket(75, Fin(211, 5)),
     PyDict(<<Item(KeySignals, PyDict(<<>>))>>)}

\* payload = packet.to_dict() if isinstance(packet, SignalPacket) else packet
Payload(p) == IF "timestamp" \in DOMAIN p THEN ToDict(p) ELSE p

QueuePayloads == {Payload(p) : p \in ReplayPackets}

\* the models of the replay tests: predict_proba answers the same row
\* [p0, p1] for every feature vector
DummyModel == <<Fin(1, 5), Fin(4, 5)>>

LowStressModel == <<Fin(11, 20), Fin(9, 20)>>

Models == {DummyModel, LowStressModel}

Prediction(label, pscore, confidence) ==
    [label |-> label, score |-> pscore, confidence |-> confidence]

\* StressPredictor.predict with a model that has predict_proba
Predict(model, payload) ==
    LET proba == model
        pscore == proba[2]
        pred_idx == IF FGt(proba[2], proba[1]) THEN 1 ELSE 0
        confidence == proba[pred_idx + 1]
        label == IF FLe(Fin(7, 20), pscore) /\ FLe(pscore, Fin(13, 20))
                 THEN "Low Stress"
                 ELSE IF pred_idx = 1 THEN "High Stress" ELSE "Baseline"
    IN  Prediction(label, pscore, confidence)

NoPrediction == Prediction("", Zero, Zero)

\* run_reader(predictor, source, on_prediction, stop_on_empty) about to call
\* source.get(); predicted and delivered are the arguments of its calls of
\* predictor.predict and of on_prediction so far
NewReader(stop_on_empty, model) ==
    [pc |-> "get", stop_on_empty |-> stop_on_empty, model |-> model,
     packet |-> PyNone, prediction |-> NoPrediction,
     predicted |-> <<>>, delivered |-> <<>>]

NewProducer(packets) == [pc |-> "idle", tosend |-> packets, payload |-> PyNone]

StreamIdle ==
    /\ source = NewQueue(0, <<>>)
    /\ reader = [NewReader(TRUE, DummyModel) EXCEPT !.pc = "idle"]
    /\ producer = NewProducer(<<>>)

\* packet = source.get(timeout=cfg.poll_interval): an item, or queue.Empty
\* and then the end of the loop or the sleep before the next poll
ReaderGet ==
    /\ reader.pc = "get"
    /\ IF source.items # <<>>
       THEN LET g == QueueGet(source.items)
            IN  /\ source' = [source EXCEPT !.items = g.rest]
                /\ reader' = [reader EXCEPT !.pc = "predict", !.packet = g.item]
       ELSE /\ source' = source
            /\ reader' = [reader EXCEPT
                             !.pc = IF reader.stop_on_empty THEN "done" ELSE "sleep"]
    /\ UNCHANGED <<producer, coreVars, offStream>>

\* sleep(cfg.poll_interval); continue
ReaderSleep ==
    /\ reader.pc = "sleep"
    /\ reader' = [reader EXCEPT !.pc = "get"]
    /\ UNCHANGED <<source, producer, coreVars, offStream>>

\* prediction = predictor.predict(packet)
ReaderPredict ==
    /\ reader.pc = "predict"
    /\ reader' = [reader EXCEPT
                     !.pc = "deliver",
                     !.prediction = Predict(reader.model, reader.packet),
                     !.predicted = Append(@, reader.packet)]
    /\ UNCHANGED <<source, producer, coreVars, offStream>>

\* on_prediction(prediction)
ReaderDeliver ==
    /\ reader.pc = "deliver"
    /\ reader' = [reader EXCEPT
                     !.pc = "get",
                     !.delivered = Append(@, reader.prediction)]
    /\ UNCHANGED <<source, producer, coreVars, offStream>>

\* QueueSink.send(packet): self._queue.put(payload) returns at once when the
\* queue has room and waits for room when the queue is full
SendCall ==
    /\ producer.pc = "idle"
    /\ producer.tosend # <<>>
    /\ LET payload == Payload(Head(producer.tosend))
       IN  IF Full(source)
           THEN /\ producer' = [pc |-> "waiting", tosend |-> Tail(producer.tosend),
                                payload |-> payload]
                /\ source' = source
           ELSE /\ producer' = [producer EXCEPT !.tosend = Tail(@)]
                /\ source' = Put(source, payload)
    /\ UNCHANGED <<reader, coreVars, offStream>>

\* the put() that waited goes on once a get() has made room
PutResume ==
    /\ producer.pc = "waiting"
    /\ ~Full(source)
    /\ source' = Put(source, producer.payload)
    /\ producer' = [producer EXCEPT !.pc = "idle", !.payload = PyNone]
    /\ UNCHANGED <<reader, coreVars, offStream>>

(* ------------------------------------------------------------------ *)
(* Two engines and two analyzers side by side                          *)
(* ------------------------------------------------------------------ *)
Instances == {1, 2}

\* a Python list object is an entry of the heap lists, an attribute holding a
\* list holds the index of its entry
AllocListOnce(lists) == 1

\* the list object a list display [] creates: a new entry of the heap
AllocList(lists) == Len(lists) + 1

\* the heap once the list at ref exists
WithList(lists, ref) == IF ref > Len(lists) THEN Append(lists, <<>>) ELSE lists

\* StressEngine(config)
NewEngine(cfg) ==
    [config |-> cfg, state |-> "NEUTRAL", score |-> Half, last_change |-> Zero]

\* NuanicEDAAnalyzer() on the heap lists: the attributes of the new object and
\* the heap after its two list displays
NewAnalyzerObject(lists) ==
    LET h == AllocList(lists)
        lists1 == WithList(lists, h)
        pk == AllocList(lists1)
    IN  [attrs |-> [baseline |-> None, eda_history |-> h, peaks |-> pk,
                    last_update |-> NoTime],
         lists |-> WithList(lists1, pk)]

\* the analyzer as add_reading sees it: its attributes, the lists read
AnalyzerView(p, i) ==
    [baseline |-> p.analyzer[i].baseline,
     eda_history |-> p.lists[p.analyzer[i].eda_history],
     peaks |-> p.lists[p.analyzer[i].peaks],
     last_update |-> p.analyzer[i].last_update]

PairView(p) ==
    [engine |-> p.engine, analyzer |-> [i \in Instances |-> AnalyzerView(p, i)]]

\* both engines and both analyzers constructed, no call made
NewPair(cfg) ==
    LET a1 == NewAnalyzerObject(<<>>)
        a2 == NewAnalyzerObject(a1.lists)
        objs == [engine |-> [i \in Instances |-> NewEngine(cfg)],
                 analyzer |-> <<a1.attrs, a2.attrs>>,
                 lists |-> a2.lists]
    IN  [engine |-> objs.engine, analyzer |-> objs.analyzer, lists |-> objs.lists,
         ncalls |-> 0,
         last |-> [kind |-> "none", who |-> 1, pre |-> PairView(objs)]]

PairIdle == pair = NewPair(UATRConfig)

PairScores == {Zero, One}

PairReadings == {Fin(100, 1), Fin(150, 1)}

\* engines[i].update(StressSignal(score=s, timestamp=ts))
PairUpdate(i) ==
    /\ pair.ncalls < MaxPairCalls
    /\ \E s \in PairScores, ts \in {Zero, Fin(TimeUnit, 1)} :
          LET e == pair.engine[i]
              r == UpdateResult(e.config, e, StressSignal(s, ts), ts)
          IN  pair' = [pair EXCEPT
                          !.engine[i] = [e EXCEPT !.state = r.state,
                                                  !.score = r.score,
                                                  !.last_change = r.last_change],
                          !.ncalls = @ + 1,
                          !.last = [kind |-> "update", who |-> i,
                                    pre |-> PairView(pair)]]
    /\ UNCHANGED <<coreVars, offPair>>

\* analyzers[i].add_reading(v): the attributes are assigned on the object, the
\* lists are changed in place
PairAddReading(i) ==
    /\ pair.ncalls < MaxPairCalls
    /\ \E v \in PairReadings, ts \in {pair.ncalls, pair.ncalls + 1} :
          LET a == pair.analyzer[i]
              r == AddReading(AnalyzerView(pair, i), v, ts).analyzer
          IN  pair' = [pair EXCEPT
                          !.analyzer[i] = [a EXCEPT !.baseline = r.baseline,
                                                    !.last_update = r.last_update],
                          !.lists = [[@ EXCEPT ![a.peaks] = r.peaks]
                                        EXCEPT ![a.eda_history] = r.eda_history],
                          !.ncalls = @ + 1,
                          !.last = [kind |-> "add_reading", who |-> i,
                                    pre |-> PairView(pair)]]
    /\ UNCHANGED <<coreVars, offPair>>

(* ------------------------------------------------------------------ *)
(* NuanicDataLogger                                                    *)
(* ------------------------------------------------------------------ *)
\* f"{x:.1f}" for a finite x >= 0: the nearest tenth, one digit after the point
FormatOneDecimal(x) ==
    LET tenths == (x.n * 20 + x.d) \div (2 * x.d)
    IN  NatDigits(tenths \div 10) \o <<".">> \o NatDigits(tenths % 10)

HeaderRow ==
    <<"timestamp", "stress_raw", "stress_percent", "eda_hex", "full_packet_hex">>

\* the row notification_callback writes for data, ts the reading of the clock
\* behind its timestamp column
DataRow(data, ts) ==
    <<ts, data[15], FormatOneDecimal(StressPercent(data[15])),
      Hex(EdaBytes(data)), Hex(data)>>

\* NuanicDataLogger.__init__; lines is the content of the file csv_file names,
\* received the payloads handed to notification_callback since the file was
\* created (before that, since the constructor)
NewLogger ==
    [csv_file |-> "None", lines |-> <<>>, row_count |-> 0,
     received |-> <<>>, outcome |-> "idle", clock |-> 0, ncalls |-> 0]

LoggerIdle == logger = NewLogger

\* the callback counting every payload, the short ones too
LogNotificationCounting(lg, data, ts) ==
    IF Len(data) < 15
    THEN [lg EXCEPT !.row_count = @ + 1, !.outcome = "return"]
    ELSE IF lg.csv_file = "None"
    THEN [lg EXCEPT !.outcome = "raise"]
    ELSE [lg EXCEPT !.lines = Append(@, DataRow(data, ts)),
                    !.row_count = @ + 1,
                    !.outcome = "return"]

\* notification_callback(sender, data): the logger after the call; open(None)
\* raises TypeError when no log file has been created
LogNotification(lg, data, ts) ==
    IF Len(data) < 15
    THEN [lg EXCEPT !.outcome = "return"]
    ELSE IF lg.csv_file = "None"
    THEN [lg EXCEPT !.outcome = "raise"]
    ELSE [lg EXCEPT !.lines = Append(@, DataRow(data, ts)),
                    !.row_count = @ + 1,
                    !.outcome = "return"]

\* logger._create_log_file(): a new file holding the header row
CreateLogFile ==
    /\ logger.csv_file = "None"
    /\ logger' = [logger EXCEPT !.csv_file = "file", !.lines = <<HeaderRow>>,
                                !.received = <<>>, !.outcome = "return"]
    /\ UNCHANGED <<coreVars, offLogger>>

\* one call logger.notification_callback(sender, data)
LogCall ==
    /\ logger.ncalls < MaxLogged
    /\ \E data \in Payloads, ts \in {logger.clock, logger.clock + 1} :
          logger' = [LogNotification(logger, data, ts) EXCEPT
                        !.received = Append(@, data),
                        !.clock = ts,
                        !.ncalls = @ + 1]
    /\ UNCHANGED <<coreVars, offLogger>>

(* ------------------------------------------------------------------ *)
(* NuanicConnector                                                     *)
(* ------------------------------------------------------------------ *)
\* NuanicConnector.__init__.  link: whether the BLE connection of the client
\* is established; calls: the calls made so far, each with what it returned
\* and whether it called a method of the client
NewConnector ==
    [device |-> "None", client |-> "None", link |-> FALSE, calls |-> <<>>]

ConnectorIdle == connector = NewConnector

Called(op, ret, touched) == [op |-> op, ret |-> ret, touched |-> touched]

\* value[0] of the battery characteristic, as text like the other results
BatteryLevels == {"0", "100"}

\* await connector.connect(): the scan finds the ring or not; BleakClient
\* .connect() returns, or raises TimeoutError or another exception; an
\* exception of pair() is caught and printed
ConnectCall ==
    /\ Len(connector.calls) < MaxConnectorCalls
    /\ \E found \in BOOLEAN, connected \in BOOLEAN :
          IF connector.device = "None" /\ ~found
          THEN connector' = [connector EXCEPT
                                !.calls = Append(@, Called("connect", "False", FALSE))]
          ELSE connector' = [connector EXCEPT
                                !.device = "ring",
                                !.client = "BleakClient",
                                !.link = connected,
                                !.calls = Append(@, Called("connect",
                                             IF connected THEN "True" ELSE "False",
                                             TRUE))]
    /\ UNCHANGED <<coreVars, offConnector>>

\* await connector.disconnect(); client.disconnect() returns
DisconnectCall ==
    /\ Len(connector.calls) < MaxConnectorCalls
    /\ IF connector.client # "None"
       THEN connector' = [connector EXCEPT
                             !.client = "None",
                             !.link = FALSE,
                             !.calls = Append(@, Called("disconnect", "None", TRUE))]
       ELSE connector' = [connector EXCEPT
                             !.calls = Append(@, Called("disconnect", "None", FALSE))]
    /\ UNCHANGED <<coreVars, offConnector>>

\* await connector.read_battery(): read_gatt_char returns the level on an
\* established link, or raises, as it does without a link
ReadBatteryCall ==
    /\ Len(connector.calls) < MaxConnectorCalls
    /\ IF connector.client = "None"
       THEN connector' = [connector EXCEPT
                             !.calls = Append(@, Called("read_battery", "None", FALSE))]
       ELSE \E ret \in {"None"} \cup (IF connector.link THEN BatteryLevels ELSE {}) :
               connector' = [connector EXCEPT
                                !.calls = Append(@, Called("read_battery", ret, TRUE))]
    /\ UNCHANGED <<coreVars, offConnector>>

\* await connector.subscribe_to_stress(callback): start_notify returns on an
\* established link, or raises, as it does without a link
SubscribeCall ==
    /\ Len(connector.calls) < MaxConnectorCalls
    /\ IF connector.client = "None"
       THEN connector' = [connector EXCEPT
                             !.calls = Append(@, Called("subscribe_to_stress",
                                                        "False", FALSE))]
       ELSE \E ret \in {"False"} \cup (IF connector.link THEN {"True"} ELSE {}) :
               connector' = [connector EXCEPT
                                !.calls = Append(@, Called("subscribe_to_stress",
                                                           ret, TRUE))]
    /\ UNCHANGED <<coreVars, offConnector>>

(* ------------------------------------------------------------------ *)
(* HeartRate._notification_handler                                     *)
(* ------------------------------------------------------------------ *)
\* Heart Rate Measurement payloads: a flags byte, then the value
HrBytes == {0, 1, 72}

HrPayloads == UNION {[1..n -> HrBytes] : n \in 0..MaxHrLen}

\* the try block of the handler: data[1] raises IndexError on a payload of
\* one byte; the slice data[1:3] holds the bytes there are, and
\* int.from_bytes of it is their little-endian value, 0 for no byte
HeartRateValue(data) ==
    IF data[1] % 2 = 0
    THEN IF Len(data) >= 2
         THEN [kind |-> "value", v |-> data[2]]
         ELSE [kind |-> "raise", v |-> 0]
    ELSE [kind |-> "value",
          v |-> (IF Len(data) >= 2 THEN data[2] ELSE 0)
                + (IF Len(data) >= 3 THEN 256 * data[3] ELSE 0)]

\* HeartRate(client, callback, unpack=unpack); last is the most recent call of
\* _notification_handler: its payload, how it ended, whether it called the
\* callback, with which heart rate, and whether it caught an exception of it
NewHeartRate(callback, unpack) ==
    [callback |-> callback, unpack |-> unpack, n |-> 0,
     last |-> [data |-> <<>>, outcome |-> "idle", invoked |-> FALSE, hr |-> 0,
               swallowed |-> FALSE]]

HeartIdle == heart = NewHeartRate(FALSE, TRUE)

\* one call heartrate._notification_handler(sender, data); the callback
\* returns or raises
NotifyHeartCall ==
    /\ heart.n < MaxHeartCalls
    /\ \E data \in HrPayloads, raises \in BOOLEAN :
          LET r == IF data = <<>> THEN [kind |-> "raise", v |-> 0]
                   ELSE HeartRateValue(data)
              invoked == r.kind = "value" /\ heart.callback
          IN  heart' = [heart EXCEPT
                           !.n = @ + 1,
                           !.last = [data |-> data, outcome |-> "return",
                                     invoked |-> invoked,
                                     hr |-> IF invoked THEN r.v ELSE 0,
                                     swallowed |-> invoked /\ raises]]
    /\ UNCHANGED <<coreVars, offHeart>>

OffStreamIdle == PairIdle /\ LoggerIdle /\ ConnectorIdle /\ HeartIdle

OffPairIdle == StreamIdle /\ LoggerIdle /\ ConnectorIdle /\ HeartIdle

OffLoggerIdle == StreamIdle /\ PairIdle /\ ConnectorIdle /\ HeartIdle

OffConnectorIdle == StreamIdle /\ PairIdle /\ LoggerIdle /\ HeartIdle

OffHeartIdle == StreamIdle /\ PairIdle /\ LoggerIdle /\ ConnectorIdle

EdgeIdle == StreamIdle /\ PairIdle /\ LoggerIdle /\ ConnectorIdle /\ HeartIdle

RestIdle ==
    MonitorIdle /\ AnalyzerIdle /\ SessionIdle /\ AgentIdle /\ WireIdle /\ EdgeIdle

InitRun ==
    /\ EngineInit
    /\ config \in RunConfigs
    /\ run = NoRun
    /\ DecodeIdle
    /\ RestIdle

NextRun == RunCall

SpecRun == InitRun /\ [][NextRun]_vars

InitDecode ==
    /\ EngineInit
    /\ config = UATRConfig
    /\ run = NoRun
    /\ packet \in Packets
    /\ parsed = ParseResult("idle", NoDict)
    /\ nparsed = 0
    /\ now = 0
    /\ RestIdle

NextDecode == ParseCall

SpecDecode == InitDecode /\ [][NextDecode]_vars

\* the same packet decoded again, by a monitor in any of its states
InitTwice ==
    /\ EngineInit
    /\ config = UATRConfig
    /\ run = NoRun
    /\ packet \in Packets
    /\ parsed = ParseResult("idle", NoDict)
    /\ nparsed = 0
    /\ now = 0
    /\ earlier = ParseResult("idle", NoDict)
    /\ monitor \in MonitorStates
    /\ notified = NoNotification
    /\ AnalyzerIdle
    /\ SessionIdle
    /\ AgentIdle
    /\ WireIdle
    /\ EdgeIdle

NextTwice == ParseCall

SpecTwice == InitTwice /\ [][NextTwice]_vars

InitScale ==
    /\ EngineInit
    /\ config = UATRConfig
    /\ run = NoRun
    /\ DecodeIdle
    /\ RestIdle

NextScale == ScaleCall

SpecScale == InitScale /\ [][NextScale]_vars

InitMonitor ==
    /\ EngineInit
    /\ config = UATRConfig
    /\ run = NoRun
    /\ DecodeIdle
    /\ RestIdle

NextMonitor == NotifyCall

SpecMonitor == InitMonitor /\ [][NextMonitor]_vars

InitHistory ==
    /\ EngineInit
    /\ config = UATRConfig
    /\ run = NoRun
    /\ DecodeIdle
    /\ MonitorIdle
    /\ analyzer = NewAnalyzer
    /\ pending \in LongFeeds
    /\ reading = NoReading
    /\ SessionIdle
    /\ AgentIdle
    /\ WireIdle
    /\ EdgeIdle

NextHistory == AddReadingCall

SpecHistory == InitHistory /\ [][NextHistory]_vars

InitTracker ==
    /\ EngineInit
    /\ config = UATRConfig
    /\ run = NoRun
    /\ DecodeIdle
    /\ MonitorIdle
    /\ analyzer = NewAnalyzer
    /\ pending \in ShortFeeds
    /\ reading = NoReading
    /\ SessionIdle
    /\ AgentIdle
    /\ WireIdle
    /\ EdgeIdle

NextTracker == AddReadingCall

SpecTracker == InitTracker /\ [][NextTracker]_vars

InitSession ==
    /\ EngineInit
    /\ config = UATRConfig
    /\ run = NoRun
    /\ DecodeIdle
    /\ MonitorIdle
    /\ AnalyzerIdle
    /\ session \in {[readings |-> r, result |-> SessionResult("idle", NoSessionStats)] :
                        r \in Sessions}
    /\ AgentIdle
    /\ WireIdle
    /\ EdgeIdle

NextSession == AnalyzeCall

SpecSession == InitSession /\ [][NextSession]_vars

InitAgent ==
    /\ EngineInit
    /\ config = UATRConfig
    /\ run = NoRun
    /\ DecodeIdle
    /\ MonitorIdle
    /\ AnalyzerIdle
    /\ SessionIdle
    /\ agent \in {NewAgent(cfg) : cfg \in AgentConfigs}
    /\ WireIdle
    /\ EdgeIdle

NextAgent == DecideCall

SpecAgent == InitAgent /\ [][NextAgent]_vars

InitWire ==
    /\ EngineInit
    /\ config = UATRConfig
    /\ run = NoRun
    /\ DecodeIdle
    /\ MonitorIdle
    /\ AnalyzerIdle
    /\ SessionIdle
    /\ AgentIdle
    /\ wire \in {NewWire(p) : p \in SignalPackets}
    /\ EdgeIdle

NextWire == ToJsonCall \/ LoadCall

SpecWire == InitWire /\ [][NextWire]_vars

CoreIdle ==
    /\ EngineInit
    /\ config = UATRConfig
    /\ run = NoRun
    /\ DecodeIdle
    /\ MonitorIdle
    /\ AnalyzerIdle
    /\ SessionIdle
    /\ AgentIdle
    /\ WireIdle

\* run_reader on a queue that holds its packets already, nobody sending
InitReader ==
    /\ CoreIdle
    /\ source \in {NewQueue(0, items) :
                      items \in UNION {[1..n -> QueuePayloads] : n \in 0..MaxQueued}}
    /\ reader \in {NewReader(b, m) : b \in BOOLEAN, m \in Models}
    /\ producer = NewProducer(<<>>)
    /\ OffStreamIdle

NextReader == ReaderGet \/ ReaderSleep \/ ReaderPredict \/ ReaderDeliver

\* the reader is a thread of its own: a step it can take is taken
SpecReader == InitReader /\ [][NextReader]_vars /\ WF_vars(NextReader)

\* a transport callback sending through QueueSink while the reader runs
InitSink ==
    /\ CoreIdle
    /\ source \in {NewQueue(m, <<>>) : m \in 0..MaxSize}
    /\ reader \in {NewReader(b, DummyModel) : b \in BOOLEAN}
    /\ producer \in {NewProducer(ps) :
                        ps \in UNION {[1..n -> ReplayPackets] : n \in 0..MaxQueued}}
    /\ OffStreamIdle

NextSink ==
    \/ SendCall
    \/ PutResume
    \/ ReaderGet
    \/ ReaderSleep
    \/ ReaderPredict
    \/ ReaderDeliver

SpecSink == InitSink /\ [][NextSink]_vars

\* two engines and two analyzers, called in any order
InitPair ==
    /\ CoreIdle
    /\ OffPairIdle
    /\ pair \in {NewPair(cfg) : cfg \in {TestConfig, UATRConfig}}

NextPair == \E i \in Instances : PairUpdate(i) \/ PairAddReading(i)

SpecPair == InitPair /\ [][NextPair]_vars

\* a logger fresh from its constructor
InitLogger ==
    /\ CoreIdle
    /\ OffLoggerIdle
    /\ logger = NewLogger

NextLogger == CreateLogFile \/ LogCall

SpecLogger == InitLogger /\ [][NextLogger]_vars

\* an engine fed scores within [0, 1] only
InitBounded ==
    /\ EngineInit
    /\ config \in BoundedConfigs
    /\ run = NoRun
    /\ DecodeIdle
    /\ RestIdle

NextBounded == BoundedCall

SpecBounded == InitBounded /\ [][NextBounded]_vars

\* a connector fresh from its constructor
InitConnector ==
    /\ CoreIdle
    /\ OffConnectorIdle
    /\ connector = NewConnector

NextConnector == ConnectCall \/ DisconnectCall \/ ReadBatteryCall \/ SubscribeCall

SpecConnector == InitConnector /\ [][NextConnector]_vars

\* a HeartRate with or without a callback, unpacking or not
InitHeart ==
    /\ CoreIdle
    /\ OffHeartIdle
    /\ heart \in {NewHeartRate(cb, u) : cb \in BOOLEAN, u \in BOOLEAN}

NextHeart == NotifyHeartCall

SpecHeart == InitHeart /\ [][NextHeart]_vars

Init ==
    /\ EngineInit
    /\ config \in Configs
    /\ run = NoRun
    /\ DecodeIdle
    /\ RestIdle

Next == UpdateCall

Spec == Init /\ [][Next]_vars

(* ------------------------------------------------------------------ *)
(* Properties of StressEngine.update, stated on the most recent call   *)
(* ------------------------------------------------------------------ *)
\* the dwell condition of the most recent call, from its arguments
CallWithinDwell ==
    FLt(FSub(call.ts, call.pre.last_change), config.min_state_seconds)

\* |score' - 0.5| >= change_cost for the score the most recent call left
CallDecisive == FGe(FAbs(FSub(score, Half)), config.change_cost)

\* C1: a call whose timestamp lies less than min_state_seconds after the last
\* change leaves state and last_change as they were and returns that state,
\* wherever the smoothed score has moved.
DwellGuardKeepsState ==
    (call.called /\ CallWithinDwell) =>
        /\ state = call.pre.state
        /\ last_change = call.pre.last_change
        /\ call.ret = call.pre.state

\* C1 witness: a call inside the dwell time whose smoothed score has reached
\* threshold_high, decisively, while the engine stays out of STRESS.
DwellGuardWitness ==
    /\ call.called
    /\ CallWithinDwell
    /\ FGe(score, config.threshold_high)
    /\ CallDecisive
    /\ state = "NEUTRAL"
    /\ call.ret = "NEUTRAL"

\* C2: past the dwell guard, a candidate that differs from the current state
\* is taken exactly when |score' - 0.5| >= change_cost; taken, it becomes the
\* state and ts the time of the last change; not taken, both stay.
ChangeCostGuard ==
    (call.called /\ ~CallWithinDwell /\ call.candidate # call.pre.state) =>
        IF CallDecisive
        THEN state = call.candidate /\ last_change = call.ts
        ELSE state = call.pre.state /\ last_change = call.pre.last_change

\* C2 witness: past the dwell guard, a differing candidate is refused because
\* the smoothed score is not decisive.
ChangeCostWitness ==
    /\ call.called
    /\ ~CallWithinDwell
    /\ call.candidate \in StressState
    /\ call.candidate # call.pre.state
    /\ ~CallDecisive
    /\ state = call.pre.state
    /\ last_change = call.pre.last_change

\* C5: every call replaces the smoothed score by
\* decay*score + (1-decay)*(evidence_weight*signal.score), also a call that the
\* dwell guard ends early.
ScoreSmoothedEveryCall ==
    call.called =>
        score = FAdd(FMul(config.decay, call.pre.score),
                     FMul(FSub(One, config.decay),
                          FMul(config.evidence_weight, call.signal.score)))

\* C5 witness: a call ended by the dwell guard has moved the score.
ScoreSmoothedWitness ==
    /\ call.called
    /\ CallWithinDwell
    /\ call.candidate = NoCandidate
    /\ score # call.pre.score
    /\ state = call.pre.state

\* C6: a new engine is NEUTRAL; a computed candidate is STRESS for
\* score' >= threshold_high, NO_STRESS for score' <= threshold_low, NEUTRAL
\* otherwise; and under UATRConfig(min_state_seconds=0, decay=0,
\* evidence_weight=1) the first update with a score at or above threshold_high
\* returns STRESS.
CandidateFromScore ==
    /\ (nupdates = 0 => state = "NEUTRAL")
    /\ (call.called /\ ~CallWithinDwell) =>
          call.candidate =
              IF FGe(score, config.threshold_high) THEN "STRESS"
              ELSE IF FLe(score, config.threshold_low) THEN "NO_STRESS"
              ELSE "NEUTRAL"
    /\ (config = TestConfig /\ nupdates = 1
            /\ FGe(call.signal.score, config.threshold_high)) =>
          call.ret = "STRESS"

\* C6 witness: the first update of the test configuration, with a score equal
\* to threshold_high, has returned STRESS.
CandidateWitness ==
    /\ config = TestConfig
    /\ nupdates = 1
    /\ call.signal.score = config.threshold_high
    /\ call.candidate = "STRESS"
    /\ call.ret = "STRESS"

\* C7: update has no error outcome: the state is always one of NEUTRAL, STRESS,
\* NO_STRESS and so is the value every call returns, whatever the score (out of
\* [0,1], NaN, infinite) and whether or not the signal carries a timestamp.
AlwaysValidState ==
    /\ state \in StressState
    /\ call.called => call.ret \in StressState

\* C7 witness: a call without a timestamp and with a score outside [0,1] or
\* NaN got past the dwell guard and returned a state.
AlwaysValidWitness ==
    /\ call.called
    /\ call.signal.timestamp = None
    /\ ~(FGe(call.signal.score, Zero) /\ FLe(call.signal.score, One))
    /\ call.candidate \in StressState
    /\ call.ret \in StressState

(* ------------------------------------------------------------------ *)
(* Properties of a run of update() calls                               *)
(* ------------------------------------------------------------------ *)
DwellTen == config.min_state_seconds = Fin(10, 1)

\* C3 as claimed: with min_state_seconds = 10, scores narrowly around
\* threshold_high and consecutive timestamps less than 10 s apart, the state
\* changes at most once over the whole run.
NoFlapConsecutiveClose ==
    (DwellTen /\ run.narrow /\ FLt(run.gap, Fin(10, 1))) => run.changes <= 1

\* C3 as amended: with min_state_seconds = 10, scores narrowly around
\* threshold_high and all timestamps of the run less than 10 s apart from one
\* another, the state changes at most once over the whole run.
NoFlapWithinWindow ==
    (DwellTen /\ run.narrow /\ FLt(FSub(run.hi, run.lo), Fin(10, 1))) =>
        run.changes <= 1

\* C3 witness: within such a window the engine went to STRESS once and the
\* smoothed score has since fallen back below threshold_high without a change.
NoFlapWitness ==
    /\ DwellTen
    /\ run.narrow
    /\ run.n >= 2
    /\ FLt(FSub(run.hi, run.lo), Fin(10, 1))
    /\ run.changes = 1
    /\ state = "STRESS"
    /\ FLt(score, config.threshold_high)

\* C4 as claimed: a fresh engine fed nothing but the sustained score 0.95,
\* with |0.95 - 0.5| >= change_cost, at least twice and up to a timestamp at
\* or beyond min_state_seconds, has gone NEUTRAL -> STRESS and made no other
\* change.
GenuineTransitionOnce ==
    (/\ run.high
     /\ run.n >= 2
     /\ FGe(run.hi, config.min_state_seconds)
     /\ FGe(FAbs(FSub(HighScore, Half)), config.change_cost)) =>
        (state = "STRESS" /\ run.changes = 1)

(* ------------------------------------------------------------------ *)
(* Properties of NuanicMonitor.parse_stress_packet                     *)
(* ------------------------------------------------------------------ *)
Decoded == parsed.kind # "idle"

\* C8: decoding a packet of fewer than 15 bytes, the empty packet included,
\* returns None and does not raise.
ShortPacketYieldsNone ==
    (Decoded /\ Len(packet) < 15) => parsed.kind = "None"

\* C8 witness: the empty packet has been decoded, to None.
ShortPacketWitness ==
    /\ Decoded
    /\ Len(packet) = 0
    /\ parsed.kind = "None"

FullPacketEdaBlock ==
    (Decoded /\ Len(packet) >= 92) =>
        /\ parsed.kind = "dict"
        /\ parsed.value.stress_raw = packet[15]
        /\ parsed.value.eda_raw = Hex(SubSeq(packet, 16, 92))

(* ------------------------------------------------------------------ *)
(* Properties of the stress scale                                      *)
(* ------------------------------------------------------------------ *)
\* C11: for every stress byte 0..255 the decoded stress_percent lies in
\* [0, 100], is 0 for byte 0 and 100 for byte 255, and does not decrease when
\* the byte increases.
StressPercentScale ==
    parsed.kind = "dict" =>
        /\ FGe(parsed.value.stress_percent, Zero)
        /\ FLe(parsed.value.stress_percent, Fin(100, 1))
        /\ (parsed.value.stress_raw = 0 => parsed.value.stress_percent = Zero)
        /\ (parsed.value.stress_raw = 255 =>
                parsed.value.stress_percent = Fin(100, 1))
        /\ (earlier.kind = "dict"
                /\ earlier.value.stress_raw <= parsed.value.stress_raw) =>
              FLe(earlier.value.stress_percent, parsed.value.stress_percent)

\* C11 witness: byte 254 and then byte 255 have been decoded, the second to
\* 100 percent and the first to less.
StressPercentWitness ==
    /\ earlier.kind = "dict"
    /\ parsed.kind = "dict"
    /\ earlier.value.stress_raw = 254
    /\ parsed.value.stress_raw = 255
    /\ parsed.value.stress_percent = Fin(100, 1)
    /\ FLt(earlier.value.stress_percent, parsed.value.stress_percent)

(* ------------------------------------------------------------------ *)
(* Properties of NuanicMonitor.notification_callback                   *)
(* ------------------------------------------------------------------ *)
\* C12: a notification whose payload has fewer than 15 bytes does not raise
\* and leaves current_stress and current_eda_raw as they were; after any
\* sequence of notifications current_stress is (byte 14 / 255) * 100 of the
\* most recent payload of 15 bytes or more, and None when there was none.
ShortPayloadIgnored ==
    notified.n > 0 =>
        /\ Len(packet) < 15 =>
              /\ notified.outcome = "return"
              /\ monitor = notified.pre
        /\ monitor.current_stress =
              IF notified.seen
              THEN FMul(Fin(notified.last[15], 255), Fin(100, 1))
              ELSE None

\* C12 witness: after a payload with stress byte 255, a short payload and
\* then a 15-byte payload with stress byte 14 have been delivered; the reading
\* is that of the last one.
ShortPayloadWitness ==
    /\ notified.n = 3
    /\ Len(packet) = 15
    /\ packet[15] = 14
    /\ notified.pre.current_stress = Fin(100, 1)
    /\ earlier.kind = "None"
    /\ monitor.current_stress = Fin(14 * 100, 255)
    /\ monitor.current_eda_raw = Str(<<>>)

(* ------------------------------------------------------------------ *)
(* Properties of NuanicEDAAnalyzer.add_reading                         *)
(* ------------------------------------------------------------------ *)
\* number of add_reading calls made
Fed == Len(reading.fed)

\* C13: after n readings eda_history has min(n, 60) entries, the most recent
\* readings in arrival order; what is dropped is the oldest.
HistoryKeepsLatest ==
    LET n == Fed
        kept == IF n < 60 THEN n ELSE 60
    IN  /\ Len(analyzer.eda_history) = kept
        /\ reading.stats.history_length = IF n = 0 THEN 0 ELSE kept
        /\ \A i \in 1..kept :
              analyzer.eda_history[i] = reading.fed[n - kept + i]

\* C13 witness: 62 distinct rising readings have been fed; the history holds
\* the 3rd to the 62nd.
HistoryWitness ==
    /\ Fed = 62
    /\ Len(analyzer.eda_history) = 60
    /\ analyzer.eda_history[1] = reading.fed[3]
    /\ analyzer.eda_history[60] = reading.fed[62]
    /\ FLt(reading.fed[1], reading.fed[2])
    /\ FLt(reading.fed[2], reading.fed[3])

\* C14: baseline is None exactly as long as no reading was fed; the first
\* reading sets it to its value; every later reading s replaces it by
\* 0.02 * s + 0.98 * baseline; it never goes back to None.
BaselineMovingAverage ==
    /\ (analyzer.baseline = None) <=> (Fed = 0)
    /\ Fed = 1 => analyzer.baseline = reading.fed[1]
    /\ Fed > 1 =>
          /\ reading.pre.baseline # None
          /\ analyzer.baseline =
                FAdd(FMul(Fin(2, 100), reading.fed[Fed]),
                     FMul(Fin(98, 100), reading.pre.baseline))
    /\ Fed > 0 => reading.stats.baseline = analyzer.baseline

\* C14 witness: after 100 and 150 a third reading of 102 has moved the
\* baseline from 101 to 101.02.
BaselineWitness ==
    /\ Fed = 3
    /\ reading.fed = <<Fin(100, 1), Fin(150, 1), Fin(102, 1)>>
    /\ reading.pre.baseline = Fin(101, 1)
    /\ analyzer.baseline = Fin(10102, 100)

\* C15 as claimed: from the second reading on, is_peak is
\* (phasic > 0.1) and (phasic >= previous_phasic * 0.8), where phasic is the
\* reading minus the updated baseline and previous_phasic is the
\* second-to-last history entry minus the baseline before this update.
PeakComparesWithPrevious ==
    Fed >= 2 =>
        LET h == analyzer.eda_history
            phasic == reading.stats.phasic
            previous_phasic == FSub(h[Len(h) - 1], reading.pre.baseline)
        IN  reading.stats.is_peak <=>
              /\ FGt(phasic, Fin(1, 10))
              /\ FGe(phasic, FMul(previous_phasic, Fin(8, 10)))

\* C16: on a new analyzer fed 20 readings of one value v, the reading v + 50
\* that follows is reported as a peak and the reading v + 1 after that is not.
SpikeThenSettle ==
    LET f == reading.fed
        rest == Fed >= 21 /\ \A i \in 1..20 : f[i] = f[1]
    IN  /\ (rest /\ Fed = 21 /\ f[21] = FAdd(f[1], Fin(50, 1))) =>
              reading.stats.is_peak
        /\ (rest /\ Fed = 22 /\ f[21] = FAdd(f[1], Fin(50, 1))
                 /\ f[22] = FAdd(f[1], One)) =>
              ~reading.stats.is_peak

\* C16 witness: 20 readings of 100, then 150, then 101 have been fed, and the
\* last is not a peak although it lies above the 20 readings at rest.
SpikeWitness ==
    /\ Fed = 22
    /\ \A i \in 1..20 : reading.fed[i] = Fin(100, 1)
    /\ reading.fed[21] = Fin(150, 1)
    /\ reading.fed[22] = Fin(101, 1)
    /\ reading.pre.baseline = Fin(101, 1)
    /\ ~reading.stats.is_peak

(* ------------------------------------------------------------------ *)
(* Properties of NuanicEDAAnalyzer.analyze_session                     *)
(* ------------------------------------------------------------------ *)
Analysed == session.result.kind # "idle"

\* C17: analyze_session returns None for the empty list, and for a non-empty
\* list a dict whose reading_count is the number of readings.
SessionCountsReadings ==
    Analysed =>
        IF session.readings = <<>>
        THEN session.result.kind = "None"
        ELSE /\ session.result.kind = "dict"
             /\ session.result.value.reading_count = Len(session.readings)

\* C17 witness: a list of one reading has been analysed, to a dict counting
\* one reading.
SessionCountWitness ==
    /\ Analysed
    /\ Len(session.readings) = 1
    /\ session.result.kind = "dict"
    /\ session.result.value.reading_count = 1

\* reading i of the analysed list exceeds the mean plus the population
\* standard deviation of the list: it lies above the mean, and by more than
\* the root of the mean squared deviation
Exceeds(i) ==
    LET vs == [j \in 1..Len(session.readings) |-> session.readings[j].v]
        n == Len(vs)
        mean == FMul(FSum(vs), Fin(1, n))
        dev == [j \in 1..n |-> FSub(vs[j], mean)]
        msd == FMul(FSum([j \in 1..n |-> FMul(dev[j], dev[j])]), Fin(1, n))
    IN  FGt(dev[i], Zero) /\ FGt(FMul(dev[i], dev[i]), msd)

\* C18: peak_count is the number of readings that exceed mean + population
\* standard deviation while the reading before them does not (the first
\* reading counts when it exceeds); a run of readings above counts once.
PeakCountRisingEdges ==
    session.result.kind = "dict" =>
        session.result.value.peak_count =
            Cardinality({i \in 1..Len(session.readings) :
                            Exceeds(i) /\ (i = 1 \/ ~Exceeds(i - 1))})

\* C18 witness: a list of five readings whose second and third lie above the
\* level, and no other, has been analysed, to one peak.
PeakCountWitness ==
    /\ session.result.kind = "dict"
    /\ Len(session.readings) = 5
    /\ ~Exceeds(1) /\ Exceeds(2) /\ Exceeds(3) /\ ~Exceeds(4) /\ ~Exceeds(5)
    /\ session.result.value.peak_count = 1

(* ------------------------------------------------------------------ *)
(* Properties of CognitiveAgent.decide_state                           *)
(* ------------------------------------------------------------------ *)
\* two calls in a row with the same arguments returned the same state
SameInputsSameResult ==
    (/\ agent.calls >= 2
     /\ agent.last.stress_score = agent.before.stress_score
     /\ agent.last.performance_score = agent.before.performance_score) =>
        agent.last.ret = agent.before.ret

\* C20 as claimed: decide_state returns ASSIST when stress >= high_arousal and
\* performance >= high_performance, DE_ESCALATE when stress >= high_arousal
\* and performance < high_performance, PROVOKE when stress <= low_arousal (and
\* below high_arousal), MONITOR otherwise; same inputs, same result.
DecideStateByComparison ==
    agent.calls > 0 =>
        LET s == agent.last.stress_score
            q == agent.last.performance_score
            c == agent.config
        IN  /\ agent.last.ret =
                  IF FGe(s, c.high_arousal) /\ FGe(q, c.high_performance)
                  THEN "ASSIST"
                  ELSE IF FGe(s, c.high_arousal) /\ FLt(q, c.high_performance)
                  THEN "DE_ESCALATE"
                  ELSE IF FLe(s, c.low_arousal) THEN "PROVOKE"
                  ELSE "MONITOR"
            /\ SameInputsSameResult

\* C20 as amended: decide_state returns ASSIST when stress >= high_arousal and
\* performance >= high_performance, DE_ESCALATE when stress >= high_arousal
\* and performance >= high_performance does not hold (performance below the
\* threshold, or NaN), PROVOKE when stress >= high_arousal does not hold and
\* stress <= low_arousal, MONITOR otherwise; it always returns one of the four
\* states, and the same inputs give the same result.
DecideStateByThresholds ==
    agent.calls > 0 =>
        LET s == agent.last.stress_score
            q == agent.last.performance_score
            c == agent.config
        IN  /\ agent.last.ret \in AdaptiveState
            /\ (FGe(s, c.high_arousal) /\ FGe(q, c.high_performance)) =>
                  agent.last.ret = "ASSIST"
            /\ (FGe(s, c.high_arousal) /\ ~FGe(q, c.high_performance)) =>
                  agent.last.ret = "DE_ESCALATE"
            /\ (~FGe(s, c.high_arousal) /\ FLe(s, c.low_arousal)) =>
                  agent.last.ret = "PROVOKE"
            /\ (~FGe(s, c.high_arousal) /\ ~FLe(s, c.low_arousal)) =>
                  agent.last.ret = "MONITOR"
            /\ SameInputsSameResult

\* C20 witness: twice in a row the default agent was asked about a stress
\* score on high_arousal with a NaN performance score, and answered
\* DE_ESCALATE both times.
DecideStateWitness ==
    /\ agent.calls = 2
    /\ agent.config = CognitiveAgentConfig
    /\ agent.last.stress_score = agent.config.high_arousal
    /\ agent.last.performance_score = NaN
    /\ agent.before.stress_score = agent.last.stress_score
    /\ agent.before.performance_score = NaN
    /\ agent.last.ret = "DE_ESCALATE"
    /\ agent.before.ret = "DE_ESCALATE"

(* ------------------------------------------------------------------ *)
(* Properties of the SignalPacket round trip                           *)
(* ------------------------------------------------------------------ *)
\* a == b in Python for two values that are no dicts: numbers compare by
\* value across int and float, NaN equals nothing, None equals None
PyEq(a, b) ==
    CASE a.t = "float" /\ b.t = "float" -> FEq(a.f, b.f)
      [] a.t = "float" /\ b.t = "int" -> FEq(a.f, Fin(b.i, 1))
      [] a.t = "int" /\ b.t = "float" -> FEq(Fin(a.i, 1), b.f)
      [] a.t = "int" /\ b.t = "int" -> a.i = b.i
      [] a.t = "str" /\ b.t = "str" -> a.s = b.s
      [] a.t = "none" /\ b.t = "none" -> TRUE
      [] OTHER -> FALSE

\* the two dicts have the same keys, and equal values under each key
SameMap(m1, m2) ==
    /\ m1.t = "dict" /\ m2.t = "dict"
    /\ {m1.items[j].key : j \in 1..Len(m1.items)}
          = {m2.items[j].key : j \in 1..Len(m2.items)}
    /\ \A j \in 1..Len(m1.items) :
          PyEq(m1.items[j].value, Lookup(m2, m1.items[j].key))

IsNaN(v) == v.t = "float" /\ v.f = NaN

\* the two dicts have the same keys in the same order; under each key the
\* values are equal, or both are NaN
SameMapUpToNaN(m1, m2) ==
    /\ m1.t = "dict" /\ m2.t = "dict"
    /\ Len(m1.items) = Len(m2.items)
    /\ \A j \in 1..Len(m1.items) :
          /\ m1.items[j].key = m2.items[j].key
          /\ IF IsNaN(m1.items[j].value)
             THEN IsNaN(m2.items[j].value)
             ELSE PyEq(m1.items[j].value, m2.items[j].value)

\* C19 as claimed: a SignalPacket serialised with to_dict / to_json and parsed
\* back with SignalPacket(**...) has the same signals map and the same
\* features map, key for key and value for value.
RoundTripSameMaps ==
    wire.stage = "loaded" =>
        /\ wire.back.kind = "packet"
        /\ SameMap(wire.packet.signals, wire.back.value.signals)
        /\ SameMap(wire.packet.features, wire.back.value.features)

\* C19 as amended: for a SignalPacket whose maps hold floats, ints, strs and
\* None under str keys, the packet parsed back has in signals and in features
\* the same keys in the same order, and under each key a value equal to the
\* original one, except that NaN comes back as NaN, which equals nothing.
RoundTripUpToNaN ==
    wire.stage = "loaded" =>
        /\ wire.back.kind = "packet"
        /\ SameMapUpToNaN(wire.packet.signals, wire.back.value.signals)
        /\ SameMapUpToNaN(wire.packet.features, wire.back.value.features)

\* C19 witness: a packet whose signals hold -0.25 under a key with a quote and
\* a backslash, and NaN under a plain key, has been serialised and parsed back.
RoundTripWitness ==
    /\ wire.stage = "loaded"
    /\ wire.back.kind = "packet"
    /\ Len(wire.packet.signals.items) = 2
    /\ wire.packet.signals.items[1] = Item(<<"e", "\"", "\\">>, PyFloat(Fin(-1, 4)))
    /\ wire.packet.signals.items[2] = Item(<<"h", "r">>, PyFloat(NaN))
    /\ wire.back.value.signals = wire.packet.signals
    /\ ~SameMap(wire.packet.signals, wire.back.value.signals)

(* ------------------------------------------------------------------ *)
(* The reader loop and the queue                                       *)
(* ------------------------------------------------------------------ *)
\* what the reader holds in hand: taken from the queue, not yet predicted
InHand == IF reader.pc = "predict" THEN <<reader.packet>> ELSE <<>>

\* C21: run_reader hands every packet of the queue to predictor.predict and
\* its prediction to on_prediction exactly once and in the order of the puts:
\* the packets predicted, the one in hand and the ones still queued are at
\* every moment the packets enqueued; the predictions delivered are those of
\* the packets predicted, the last one possibly still to deliver; and with
\* stop_on_empty the loop ends, the queue empty and one prediction delivered
\* for each packet.
ReaderDrainsQueue ==
    /\ [](/\ reader.predicted \o InHand \o source.items = source.enqueued
          /\ Len(reader.delivered) =
                 Len(reader.predicted) - (IF reader.pc = "deliver" THEN 1 ELSE 0)
          /\ \A j \in 1..Len(reader.delivered) :
                 reader.delivered[j] = Predict(reader.model, reader.predicted[j])
          /\ reader.pc = "done" =>
                 /\ source.items = <<>>
                 /\ reader.predicted = source.enqueued
                 /\ Len(reader.delivered) = Len(source.enqueued))
    /\ (reader.stop_on_empty => <>(reader.pc = "done"))

\* the loop has ended after delivering the predictions of three packets, two
\* of them different
ReaderWitness ==
    /\ reader.pc = "done"
    /\ reader.stop_on_empty
    /\ Len(reader.delivered) = 3
    /\ source.enqueued[1] # source.enqueued[2]
    /\ reader.predicted = source.enqueued

\* C22: QueueSink.send returns without waiting for the consumer, whatever
\* the queue: the sender is never left waiting inside put().
SendNeverWaits == producer.pc # "waiting"

(* ------------------------------------------------------------------ *)
(* Separate objects                                                    *)
(* ------------------------------------------------------------------ *)
\* C23: a call of update on one engine leaves the state, score and
\* last_change_time of the other engine as they were, and a call of
\* add_reading on one analyzer leaves the baseline and the history of the
\* other analyzer as they were; neither call touches an object of the other
\* class.  Holding at every call, it holds over every sequence of calls in
\* every order.
InstancesAreSeparate ==
    pair.last.kind # "none" =>
        LET pre == pair.last.pre
            post == PairView(pair)
            other == 3 - pair.last.who
        IN  /\ post.engine[other] = pre.engine[other]
            /\ post.analyzer[other] = pre.analyzer[other]
            /\ pair.last.kind = "update" => post.analyzer = pre.analyzer
            /\ pair.last.kind = "add_reading" => post.engine = pre.engine

\* both engines and one analyzer have been called: the engines have ended in
\* different states, one analyzer holds a reading and the other holds none
InstancesWitness ==
    /\ pair.ncalls = 3
    /\ pair.engine[1].state = "STRESS"
    /\ pair.engine[2].state = "NO_STRESS"
    /\ Len(AnalyzerView(pair, 1).eda_history) = 1
    /\ AnalyzerView(pair, 2).eda_history = <<>>

(* ------------------------------------------------------------------ *)
(* Decoding the same packet again                                      *)
(* ------------------------------------------------------------------ *)
\* the fields of a result other than its timestamp
Reading(p) ==
    IF p.kind = "dict"
    THEN [kind |-> p.kind, stress_raw |-> p.value.stress_raw,
          stress_percent |-> p.value.stress_percent,
          eda_raw |-> p.value.eda_raw, full_data |-> p.value.full_data]
    ELSE [kind |-> p.kind]

Logged(received) == SelectSeq(received, LAMBDA d : Len(d) >= 15)

\* C25: once the log file has been created, row_count is the number of
\* payloads of 15 bytes or more received since, and the file holds the header
\* row followed by one data row per such payload, in arrival order; a shorter
\* payload changes neither.
LoggerCountsRows ==
    logger.csv_file # "None" =>
        LET kept == Logged(logger.received)
        IN  /\ logger.row_count = Len(kept)
            /\ Len(logger.lines) = 1 + logger.row_count
            /\ logger.lines[1] = HeaderRow
            /\ \A j \in 1..Len(kept) :
                  /\ logger.lines[j + 1][2] = kept[j][15]
                  /\ logger.lines[j + 1][5] = Hex(kept[j])

\* three payloads received after the file was created, the second one short:
\* two rows, of the first and of the third payload
LoggerWitness ==
    /\ logger.csv_file = "file"
    /\ Len(logger.received) = 3
    /\ Len(logger.received[1]) = 92
    /\ Len(logger.received[2]) = 14
    /\ logger.received[3] = PacketOf(15, [mul |-> 1, add |-> 0])
    /\ logger.row_count = 2
    /\ Len(logger.lines) = 3
    /\ logger.lines[3][3] = <<"5", ".", "5">>

(* ------------------------------------------------------------------ *)
(* The time of the last change, and the range of the score             *)
(* ------------------------------------------------------------------ *)
\* C26: over any sequence of update calls, with timestamps in any order,
\* last_change_time is modified only by a call that changes the state, it
\* never decreases, and a call changes the state only when its timestamp is
\* at least min_state_seconds after last_change_time, the timestamp of the
\* change before it.
LastChangeFollowsState ==
    call.called =>
        /\ last_change # call.pre.last_change => state # call.pre.state
        /\ FGe(last_change, call.pre.last_change)
        /\ state # call.pre.state =>
              /\ last_change = call.ts
              /\ FGe(FSub(call.ts, call.pre.last_change), config.min_state_seconds)

\* the second of two calls changes the state again, ten seconds after the
\* first did, under a dwell time of ten seconds
LastChangeWitness ==
    /\ nupdates = 2
    /\ config.min_state_seconds = Fin(10, 1)
    /\ call.pre.state = "STRESS"
    /\ state = "NO_STRESS"
    /\ call.pre.last_change = Fin(10, 1)
    /\ last_change = Fin(20, 1)

\* C27: with every input score within [0, 1] the smoothed score stays within
\* [0, max(0.5, evidence_weight)]; when moreover evidence_weight <=
\* threshold_high and decay > 0, as under the default configuration, the score
\* stays below threshold_high and the state is never STRESS.
ScoreStaysBounded ==
    /\ FGe(score, Zero)
    /\ FLe(score, FMax(Half, config.evidence_weight))
    /\ FLe(config.evidence_weight, config.threshold_high) /\ FGt(config.decay, Zero) =>
          /\ FLt(score, config.threshold_high)
          /\ state # "STRESS"

\* the engine with the default weights and a short memory, fed the score 1:
\* its score has come within a hundredth of threshold_high, the state is not
\* STRESS
ScoreBoundWitness ==
    /\ config = QuickConfig
    /\ nupdates >= 2
    /\ call.signal.score = One
    /\ FGt(score, FSub(config.threshold_high, Fin(1, 100)))
    /\ state = "NEUTRAL"

\* C28: a new engine given explicit timestamps stays NEUTRAL as long as no
\* update has a timestamp of min_state_seconds or more, however decisive the
\* score: an update with a timestamp below min_state_seconds on an engine that
\* has not changed state leaves it NEUTRAL, and the first change of state is
\* made by an update whose timestamp is at least min_state_seconds.
FirstChangeAfterDwell ==
    /\ run.changes = 0 => state = "NEUTRAL"
    /\ run.changes = 1 /\ state # call.pre.state =>
          FGe(call.ts, config.min_state_seconds)

\* three updates with the score 0.95 taken at full weight: the first two, at
\* 0 s and 5 s, leave the engine NEUTRAL, the third, at 10 s, makes it STRESS
FirstChangeWitness ==
    /\ config = DirectConfig
    /\ run.n = 3
    /\ run.high
    /\ run.lo = Zero
    /\ run.changes = 1
    /\ call.pre.state = "NEUTRAL"
    /\ call.ts = Fin(10, 1)
    /\ state = "STRESS"

(* ------------------------------------------------------------------ *)
(* The connector's client                                              *)
(* ------------------------------------------------------------------ *)
\* C29: client is not None exactly while the connection is established; after
\* a connect() that returned False client is None, and a subscribe_to_stress
\* or read_battery that follows reports not-connected without calling the
\* client.
ClientOnlyWhileConnected ==
    /\ connector.client # "None" <=> connector.link
    /\ \A j \in 1..Len(connector.calls) :
          LET c == connector.calls[j]
          IN  /\ j = Len(connector.calls) /\ c.op = "connect" /\ c.ret = "False" =>
                    connector.client = "None"
              /\ /\ j > 1
                 /\ connector.calls[j - 1].op = "connect"
                 /\ connector.calls[j - 1].ret = "False"
                 /\ c.op \in {"read_battery", "subscribe_to_stress"}
                 => ~c.touched /\ c.ret \in {"None", "False"}

(* ------------------------------------------------------------------ *)
(* The heart-rate handler                                              *)
(* ------------------------------------------------------------------ *)
\* C30: _notification_handler returns on every payload, and it calls the
\* callback only with a heart rate that is present in the payload: the byte
\* after the flags byte for the 8-bit format, the two bytes after it for the
\* 16-bit format; on an empty payload, and on one too short for its format,
\* the callback is not called.
HeartRateFromPayload ==
    LET data == heart.last.data
    IN  /\ heart.last.outcome \in {"idle", "return"}
        /\ heart.last.invoked =>
              /\ data # <<>>
              /\ IF data[1] % 2 = 0
                 THEN Len(data) >= 2 /\ heart.last.hr = data[2]
                 ELSE Len(data) >= 3 /\ heart.last.hr = data[2] + 256 * data[3]

====
